---- MODULE Spec2Model ----
(***************************************************************************)
(* VidView: a viewer that shows video frames next to time-stamped spectra  *)
(* and per-frame metadata.  The module models                              *)
(*   - the nearest-neighbour aligner (viewer/data_utils.py, viewer.py),    *)
(*   - the smoothing filter apply_fir_filter,                              *)
(*   - the VideoSpectraViewer window and its metadata store,               *)
(*   - the MainViewerWindow imports, navigation, table edits, export and   *)
(*     capture,                                                            *)
(*   - _plot_spectra of both viewers (channel keys, dark reference),       *)
(*   - the parsers of data_handler.py and write_csv of output_writer.py.   *)
(* Python floats are represented by integers (a fixed number of units per  *)
(* second); Python lists are sequences, indexed from 0 in the source and   *)
(* from 1 here, so list index i is sequence position i + 1.                *)
(***************************************************************************)
EXTENDS Integers, Sequences, FiniteSets, TLC

VARIABLES
    \* ---- nearest-neighbour aligner, as a pure function of its inputs
    nn_times,      \* frame_times: formatted timestamp strings, sorted by time
    nn_query,      \* the query timestamp, formatted
    nn_bisect,     \* outcome of nearest_by_timestamp on the float seconds
    nn_linear,     \* outcome of _find_nearest_frame_index on the strings
    \* ---- apply_fir_filter, as a pure function of its inputs
    fir_data,      \* data: the rows to smooth
    fir_numtaps,   \* numtaps
    fir_optimized, \* whether numpy and scipy.signal were importable
    fir_out,       \* outcome of the call
    \* ---- VideoSpectraViewer
    spectra_data,        \* rows of the spectra file: timestamp and channel values
    total_frames,        \* CAP_PROP_FRAME_COUNT of the video
    fps,                 \* CAP_PROP_FPS of the video
    control_log,         \* list of FrameMetadata
    current_frame_index,
    meta_table,          \* the editable QTableWidget: one row, a list of columns
    status_msgs,         \* status_bar.showMessage calls of the last handler, in order
    csv_file,            \* the file the last handler wrote, if it wrote one
    exc,                 \* the exception that escaped the last handler, or "none"
    h_edits,             \* history: how many cells the operator has edited
    \* ---- MainViewerWindow
    video_path, frame_times_path, spectral_path, metadata_path, output_path,
    cap,                 \* the cv2.VideoCapture: the file it opened and whether
                         \* it is still open
    mw_total_frames,     \* MainViewerWindow.total_frames
    current_frame,
    current_row,
    frame_times,         \* list of timestamp strings
    spectral_df,         \* DataFrame of the spectral file
    metadata_df,         \* DataFrame of the per-frame metadata
    metadataTable,       \* ui.metadataTable: one row, a list of cells
    videoLabel,          \* index of the frame in ui.videoLabel, -1 for none
    warnings,            \* QMessageBox.warning calls of the last handler
    open_caps,           \* history: how many capture objects are open
    peak_caps,           \* history: the most that were open at once during the
                         \* last handler
    export_file,         \* the lines of the file the last handler wrote, if any
    mw_exc,              \* the exception that escaped the last handler, or "none"
    dialog,              \* the handler that ran last and what its dialogs returned
    mw_edits,            \* history: how many cells of metadataTable were edited
    \* ---- _plot_spectra of both viewers, as pure functions of their inputs
    ps_spectra,          \* the spectral record: (key, value) pairs in file order
    ps_dark,             \* dark_reference: (integration time, intensities) pairs
    ps_viewer_out,       \* outcome of VideoSpectraViewer._plot_spectra
    ps_main_out,         \* outcome of MainViewerWindow._plot_spectra
    \* ---- the parsers of data_handler.py, as pure functions of their inputs
    pf_kind,             \* which file the path names: frame times, spectra, metadata
    pf_lines,            \* the lines of the file
    pf_num_rows,         \* num_rows of parse_metadata
    pf_out,              \* the parser called and its outcome
    \* ---- write_csv and validate_row_counts, as pure functions of their inputs
    ex_frame_times,      \* frame_times
    ex_spectral_df,      \* spectral_df
    ex_metadata_df,      \* metadata_df
    ex_writable,         \* whether the output path can be written
    ex_out,              \* outcome of write_csv: the exception or the file
    ex_validate,         \* outcome of validate_row_counts
    ex_reimport          \* outcome of parse_frame_times on the exported columns

nnVars == <<nn_times, nn_query, nn_bisect, nn_linear>>
firVars == <<fir_data, fir_numtaps, fir_optimized, fir_out>>
firCallVars == <<fir_data, fir_numtaps, fir_out>>
viewerVars == <<spectra_data, total_frames, fps, control_log, current_frame_index,
                meta_table, status_msgs, csv_file, exc, h_edits>>

mainVars == <<video_path, frame_times_path, spectral_path, metadata_path,
              output_path, cap, mw_total_frames, current_frame, current_row,
              frame_times, spectral_df, metadata_df, metadataTable, videoLabel,
              warnings, open_caps, peak_caps, export_file, mw_exc, dialog,
              mw_edits>>

plotVars == <<ps_spectra, ps_dark, ps_viewer_out, ps_main_out>>

\* The variables of the pure functions checked on their own
parseVars == <<pf_kind, pf_lines, pf_num_rows, pf_out>>

exportVars == <<ex_frame_times, ex_spectral_df, ex_metadata_df, ex_writable,
                ex_out, ex_validate, ex_reimport>>

pureVars == <<plotVars, parseVars, exportVars>>

vars == <<nnVars, firVars, viewerVars, mainVars, pureVars>>

\* --------------------------------------------------------------------------
\* Bounds of the model
\* --------------------------------------------------------------------------
MaxLen == 3        \* longest dataset handed to the aligner
MaxRowLen == 3     \* longest row handed to the smoothing filter
MaxRows == 2       \* most rows handed to the smoothing filter in one call
MaxFrames == 2     \* most frames of a video
MaxEdits == 2      \* most cell edits by the operator in one session
MaxLines == 3      \* most lines of a frame-time file
MaxTableLines == 4 \* most lines of a spectral file after its first line
MaxRowCount == 3   \* largest num_rows handed to parse_metadata
MaxSpecRows == 3   \* most rows of a spectral or metadata table handed to write_csv
MaxTableEdits == 1 \* most cells the operator edits in the table of MainViewerWindow

\* --------------------------------------------------------------------------
\* Each specification runs one part of the program; the variables of the
\* other parts rest at these values.
\* --------------------------------------------------------------------------
NearestIdle ==
    /\ nn_times = <<>>
    /\ nn_query = ""
    /\ nn_bisect = [raised |-> "none", index |-> -2]
    /\ nn_linear = [raised |-> "none", index |-> -2]

FirIdle ==
    /\ fir_data = <<>>
    /\ fir_numtaps = 1
    /\ fir_optimized = FALSE
    /\ fir_out = [called |-> FALSE, raised |-> "none", rows |-> <<>>]

FirCallIdle ==
    /\ fir_data = <<>>
    /\ fir_numtaps = 1
    /\ fir_out = [called |-> FALSE, raised |-> "none", rows |-> <<>>]

ViewerIdle ==
    /\ spectra_data = <<>>
    /\ total_frames = 0
    /\ fps = 0
    /\ control_log = <<>>
    /\ current_frame_index = 0
    /\ meta_table = <<>>
    /\ status_msgs = <<>>
    /\ csv_file = [written |-> FALSE, rows |-> <<>>]
    /\ exc = "none"
    /\ h_edits = 0

MainIdle ==
    /\ video_path = <<>>
    /\ frame_times_path = <<>>
    /\ spectral_path = <<>>
    /\ metadata_path = <<>>
    /\ output_path = <<>>
    /\ cap = [path |-> <<>>, open |-> FALSE]
    /\ mw_total_frames = 0
    /\ current_frame = 0
    /\ current_row = 0
    /\ frame_times = <<>>
    /\ spectral_df = [columns |-> <<>>, rows |-> <<>>]
    /\ metadata_df = [columns |-> <<>>, rows |-> <<>>]
    /\ metadataTable = <<>>
    /\ videoLabel = -1
    /\ warnings = <<>>
    /\ open_caps = 0
    /\ peak_caps = 0
    /\ export_file = <<>>
    /\ mw_exc = "none"
    /\ dialog = [handler |-> "none", answers |-> <<>>]
    /\ mw_edits = 0

PlotIdle ==
    /\ ps_spectra = <<>>
    /\ ps_dark = {}
    /\ ps_viewer_out = [called |-> FALSE, x |-> <<>>, handed |-> <<>>, raised |-> "none"]
    /\ ps_main_out = [called |-> FALSE, x |-> <<>>, values |-> <<>>, raised |-> "none"]

ParseIdle ==
    /\ pf_kind = "none"
    /\ pf_lines = <<>>
    /\ pf_num_rows = 0
    /\ pf_out = [fn |-> "none", raised |-> "none", value |-> <<>>]

ExportIdle ==
    /\ ex_frame_times = <<>>
    /\ ex_spectral_df = [columns |-> <<>>, rows |-> <<>>]
    /\ ex_metadata_df = [columns |-> <<>>, rows |-> <<>>]
    /\ ex_writable = FALSE
    /\ ex_out = [called |-> FALSE, raised |-> "none", lines |-> <<>>]
    /\ ex_validate = [called |-> FALSE, raised |-> "none"]
    /\ ex_reimport = [called |-> FALSE, raised |-> "none", value |-> <<>>]

PureIdle == PlotIdle /\ ParseIdle /\ ExportIdle

\* --------------------------------------------------------------------------
\* Timestamps
\* --------------------------------------------------------------------------
\* Formatted timestamps the model draws from, in the format the tests use
\* (date, time, microseconds).
TsStrings ==
    { "20200101_000000.000000", "20200101_000000.500000",
      "20200101_000001.000000", "20200101_000001.500000",
      "20200101_000002.000000" }

NoTime == -1

\* datetime.strptime(ts, TS_FORMAT): the absolute time of a well-formed
\* timestamp, in microseconds after 2020-01-01 00:00:00; NoTime stands for the
\* ValueError raised on text that does not match the format.
Strptime(ts) ==
    CASE ts = "20200101_000000.000000" -> 0
      [] ts = "20200101_000000.500000" -> 500000
      [] ts = "20200101_000001.000000" -> 1000000
      [] ts = "20200101_000001.500000" -> 1500000
      [] ts = "20200101_000002.000000" -> 2000000
      [] OTHER -> NoTime

\* The same instant as float seconds, the representation of
\* VideoSpectraViewer.spectra_data: one row {"timestamp": seconds}.  The float
\* is represented by its count of microseconds.
FloatRows(times) ==
    [i \in 1..Len(times) |-> [timestamp |-> Strptime(times[i])]]

Abs(x) == IF x < 0 THEN -x ELSE x

\* --------------------------------------------------------------------------
\* viewer/data_utils.py: nearest_by_timestamp
\* --------------------------------------------------------------------------
\* bisect.bisect_left(a, x) with lo = 0, hi = len(a): the binary search of the
\* standard library, returning a 0-based insertion point.
RECURSIVE bisect_loop(_, _, _, _)
bisect_loop(a, x, lo, hi) ==
    IF lo < hi
    THEN LET mid == (lo + hi) \div 2
         IN  IF a[mid + 1] < x
             THEN bisect_loop(a, x, mid + 1, hi)
             ELSE bisect_loop(a, x, lo, mid)
    ELSE lo

RECURSIVE bisect_right_loop(_, _, _, _)
bisect_right_loop(a, x, lo, hi) ==
    IF lo < hi
    THEN LET mid == (lo + hi) \div 2
         IN  IF x < a[mid + 1]
             THEN bisect_right_loop(a, x, lo, mid)
             ELSE bisect_right_loop(a, x, mid + 1, hi)
    ELSE lo

bisect_right(a, x) == bisect_right_loop(a, x, 0, Len(a))

bisect_left(a, x) == bisect_loop(a, x, 0, Len(a))

\* The outcome of a call: the exception that escaped ("none" when it
\* returned) and the 0-based index of the record returned (-1 when it raised).
\* The index stands for the identity of the returned row object.
Returned(i) == [raised |-> "none", index |-> i]
Raised(e) == [raised |-> e, index |-> -1]

prefer_after(before_ts, after_ts, timestamp) ==
    timestamp - before_ts < after_ts - timestamp

\* line 48: the tie goes to the row before the insertion point
prefer_before(before_ts, after_ts, timestamp) ==
    timestamp - before_ts <= after_ts - timestamp

clamp_missing(data, timestamp, idx) ==
    IF idx = 0 THEN Returned(0)
    ELSE IF idx = Len(data) THEN Raised("IndexError")
    ELSE IF prefer_before(data[idx].timestamp, data[idx + 1].timestamp, timestamp)
         THEN Returned(idx - 1)
         ELSE Returned(idx)

\* lines 40-50: the choice between the two neighbours of the insertion point
pick_neighbour(data, timestamp, idx) ==
    IF idx = 0 THEN Returned(0)
    ELSE IF idx = Len(data) THEN Returned(Len(data) - 1)
    ELSE IF prefer_before(data[idx].timestamp, data[idx + 1].timestamp, timestamp)
         THEN Returned(idx - 1)
         ELSE Returned(idx)

nearest_by_timestamp(data, timestamp) ==
    IF Len(data) = 0
    THEN Raised("ValueError")
    ELSE LET timestamps == [i \in 1..Len(data) |-> data[i].timestamp]
             idx == bisect_left(timestamps, timestamp)
         IN  pick_neighbour(data, timestamp, idx)

\* --------------------------------------------------------------------------
\* viewer.py: MainViewerWindow._find_nearest_frame_index
\* --------------------------------------------------------------------------
SeqMin(s) == CHOOSE m \in {s[i] : i \in 1..Len(s)} :
                 \A i \in 1..Len(s) : m <= s[i]

\* list.index(v): 0-based position of the first element equal to v
ListIndex(s, v) == (CHOOSE i \in 1..Len(s) :
                       s[i] = v /\ \A j \in 1..(i - 1) : s[j] # v) - 1

\* strptime of the target or of a frame time raises ValueError on malformed
\* text; min() of an empty list raises ValueError.
find_nearest_frame_index(self_frame_times, spectrum_time) ==
    LET target == Strptime(spectrum_time)
        times == [i \in 1..Len(self_frame_times) |-> Strptime(self_frame_times[i])]
        diffs == [i \in 1..Len(times) |-> Abs(times[i] - target)]
    IN  IF target = NoTime \/ \E i \in 1..Len(times) : times[i] = NoTime
        THEN Raised("ValueError")
        ELSE IF Len(diffs) = 0
        THEN Raised("ValueError")
        ELSE Returned(ListIndex(diffs, SeqMin(diffs)))

\* --------------------------------------------------------------------------
\* viewer/video_spectra_viewer.py: apply_fir_filter
\* --------------------------------------------------------------------------
DefaultTaps == 100     \* the default of the numtaps parameter
PlotTaps == 101        \* the tap count _plot_spectra passes

\* sum(s[lo..hi]), splitting the range in halves
RECURSIVE SumRange(_, _, _)
SumRange(s, lo, hi) ==
    IF lo > hi THEN 0
    ELSE IF lo = hi THEN s[lo]
    ELSE LET mid == (lo + hi) \div 2
         IN  SumRange(s, lo, mid) + SumRange(s, mid + 1, hi)

SumSeq(s) == SumRange(s, 1, Len(s))

Repeat(x, n) == [i \in 1..n |-> x]

\* Python's padded[i : i + numtaps]: the slice stops at the end of the list
Slice(s, from, to) ==
    [k \in 1..((IF to < Len(s) THEN to ELSE Len(s)) - from) |-> s[from + k]]

\* The outcome of apply_fir_filter: the exception that escaped ("none" when it
\* returned) and the rows returned.
FirReturned(rows) == [called |-> TRUE, raised |-> "none", rows |-> rows]
FirRaised(e) == [called |-> TRUE, raised |-> e, rows |-> <<>>]

\* lines 55-62, the fallback without numpy/scipy.  Every coefficient is
\* 1.0 / numtaps; a smoothed value is represented by numtaps times the float,
\* that is by the sum of its window.  Defined for a non-empty row: row[0] has
\* no value on an empty one (see smooth_row_raises).
smooth_row(row, numtaps) ==
    LET padding == numtaps \div 2
        padded == Repeat(row[1], padding) \o row \o Repeat(row[Len(row)], padding)
    IN  [i \in 1..Len(row) |->
            SumSeq(Slice(padded, i - 1, i - 1 + numtaps))]

\* line 57: row[0] (and row[-1]) raise IndexError on an empty row
smooth_row_raises(row) == Len(row) = 0

\* scipy.signal.lfilter(b, 1.0, x): y[n] = sum over k of b[k] * x[n - k], as
\* long as its input.
lfilter(b, x) ==
    [n \in 1..Len(x) |->
        SumSeq([k \in 1..(IF n < Len(b) THEN n ELSE Len(b)) |-> b[k] * x[n - k + 1]])]

\* scipy.signal.firwin(numtaps, cutoff): numtaps window coefficients.  Their
\* values do not enter the model; unit weights stand for them.
firwin(numtaps) == Repeat(1, numtaps)

\* lines 44-51, the numpy/scipy path.  np.asarray(rows, dtype=float) raises
\* ValueError on rows of different lengths; an empty list of rows is a
\* 1-dimensional array, reshaped to one row of no values.
filter_optimized(rows, numtaps) ==
    IF \E i, j \in 1..Len(rows) : Len(rows[i]) # Len(rows[j])
    THEN FirRaised("ValueError")
    ELSE LET arr == IF Len(rows) = 0 THEN << <<>> >> ELSE rows
             fir_coeff == firwin(numtaps)
         IN  FirReturned([r \in 1..Len(arr) |-> lfilter(fir_coeff, arr[r])])

\* line 64: the list comprehension stops at the first row that raises
filter_fallback(rows, numtaps) ==
    IF \E r \in 1..Len(rows) : smooth_row_raises(rows[r])
    THEN FirRaised("IndexError")
    ELSE FirReturned([r \in 1..Len(rows) |-> smooth_row(rows[r], numtaps)])

apply_fir_filter(data, numtaps, optimized) ==
    IF optimized
    THEN filter_optimized(data, numtaps)
    ELSE filter_fallback(data, numtaps)

\* --------------------------------------------------------------------------
\* viewer/video_spectra_viewer.py: VideoSpectraViewer
\* --------------------------------------------------------------------------
\* Control values are the floats 1.0 and 2.0, written 1 and 2.  A controls
\* dict is the set of its <<key, value>> items.  A dict keeps the order in
\* which its keys were inserted; every controls dict of a session lists its
\* keys in the order of KeyOrder (a control file with the columns b, a),
\* because keys come from the header of the control file or from the table,
\* and the table is rebuilt from the dict.
KeyOrder == <<"No Controls", "b", "a">>

DictKeys(d) == {item[1] : item \in d}
DictGet(d, k) == (CHOOSE item \in d : item[1] = k)[2]

\* list(d.keys())
KeyList(d) == SelectSeq(KeyOrder, LAMBDA k : k \in DictKeys(d))

\* sorted(keys): by code point, upper case before lower case
SortedKeys(keys) == SelectSeq(<<"No Controls", "a", "b">>, LAMBDA k : k \in keys)

\* str(value) of a float
Str(v) ==
    CASE v = 1 -> "1.0" [] v = 2 -> "2.0" [] v = 9 -> "9.0" [] v = 10 -> "10.0"
      [] OTHER -> "nan"

\* float(text): which texts parse, and to what
IsFloatText(text) == text \in {"1.0", "1", "2.0", "2", "9", "10"}
FloatOf(text) ==
    CASE text \in {"1.0", "1"} -> 1
      [] text \in {"2.0", "2"} -> 2
      [] text = "9" -> 9
      [] text = "10" -> 10

\* str(timestamp) of a float number of seconds held as microseconds
SecondsText(us) ==
    CASE us = 0 -> "0.0"       [] us = 500000 -> "0.5"
      [] us = 1000000 -> "1.0" [] us = 1500000 -> "1.5"
      [] us = 2000000 -> "2.0" [] us = 2500000 -> "2.5"
      [] us = 3000000 -> "3.0" [] us = 3500000 -> "3.5"
      [] us = 4000000 -> "4.0" [] OTHER -> "other"

FrameMetadata(timestamp, controls) ==
    [timestamp |-> timestamp, controls |-> controls]

\* A column of the one-row table: its header label and its cell.  A cell that
\* holds no QTableWidgetItem has has_item = FALSE.
Column(header, has_item, text) ==
    [header |-> header, has_item |-> has_item, text |-> text]

\* The part of the window the handlers change, passed from step to step.
View(log, idx, table, msgs, e) ==
    [log |-> log, idx |-> idx, table |-> table, msgs |-> msgs, exc |-> e]

Fail(v, e) == [v EXCEPT !.exc = e]

\* status_bar.showMessage: a message is its fixed text and the name it quotes
ShowMessage(v, m) == [v EXCEPT !.msgs = Append(@, m)]

\* lines 280-290: the table rebuilt from the controls of one record
table_of(controls) ==
    IF controls = {}
    THEN << Column("No Controls", FALSE, "") >>
    ELSE LET keys == KeyList(controls)
         IN  [c \in 1..Len(keys) |-> Column(keys[c], TRUE, Str(DictGet(controls, keys[c])))]

record_shown_reset(log, idx, timestamp) ==
    [log EXCEPT ![idx + 1] = FrameMetadata(timestamp, {})]

\* lines 277-278: the record of the current frame gets the frame's timestamp
record_shown(log, idx, timestamp) ==
    [log EXCEPT ![idx + 1].timestamp = timestamp]

\* _update_metadata_table
update_metadata_table(v, timestamp) ==
    LET log1 == IF v.idx >= Len(v.log)
                THEN Append(v.log, FrameMetadata(timestamp, {}))
                ELSE v.log
    IN  IF v.idx >= Len(log1)
        THEN Fail([v EXCEPT !.log = log1], "IndexError")
        ELSE LET log2 == record_shown(log1, v.idx, timestamp)
             IN  [v EXCEPT !.log = log2,
                           !.table = table_of(log2[v.idx + 1].controls)]

\* line 247 of _plot_spectra: the channel values go through the filter as one
\* row; the exception of the filter, if any, escapes _plot_spectra.
plot_spectra_raised(spectra) ==
    apply_fir_filter(<< spectra.y >>, PlotTaps, fir_optimized).raised

\* _update_display; ret is the success flag of self.video.read().  The float
\* timestamp is held as microseconds.
update_display(v, ret) ==
    IF ~ret
    THEN ShowMessage(v, <<"Failed to read frame", "">>)
    ELSE IF fps = 0
    THEN Fail(v, "ZeroDivisionError")
    ELSE LET timestamp == (v.idx * 1000000) \div fps
             found == nearest_by_timestamp(spectra_data, timestamp)
         IN  IF found.raised # "none"
             THEN Fail(v, found.raised)
             ELSE IF plot_spectra_raised(spectra_data[found.index + 1]) # "none"
             THEN Fail(v, plot_spectra_raised(spectra_data[found.index + 1]))
             ELSE LET v1 == update_metadata_table(v, timestamp)
                  IN  IF v1.exc # "none"
                      THEN v1
                      ELSE ShowMessage(v1, <<"Frame i/n", "">>)

commit_all_or_nothing(table) ==
    IF \E c \in 1..Len(table) : table[c].has_item /\ ~IsFloatText(table[c].text)
    THEN {}
    ELSE { <<table[c].header, FloatOf(table[c].text)>> :
             c \in {c \in 1..Len(table) : table[c].has_item} }

\* lines 295-303: the dict built from the cells that parse
updated_controls(table) ==
    { <<table[c].header, FloatOf(table[c].text)>> :
        c \in {c \in 1..Len(table) : table[c].has_item /\ IsFloatText(table[c].text)} }

\* line 304: one message per cell that does not parse, in column order
invalid_messages(table) ==
    LET bad == SelectSeq(table, LAMBDA col : col.has_item /\ ~IsFloatText(col.text))
    IN  [m \in 1..Len(bad) |-> <<"Invalid value in column", bad[m].header>>]

\* _save_metadata_from_table
save_metadata_from_table(v) ==
    IF v.idx >= Len(v.log)
    THEN Fail(v, "IndexError")
    ELSE [v EXCEPT !.log[v.idx + 1].controls = updated_controls(v.table),
                   !.msgs = @ \o invalid_messages(v.table)]

\* show_next_frame
show_next_frame(v, ret) ==
    LET v1 == save_metadata_from_table(v)
    IN  IF v1.exc # "none" THEN v1
        ELSE IF v1.idx < total_frames - 1
        THEN update_display([v1 EXCEPT !.idx = @ + 1], ret)
        ELSE v1

\* show_prev_frame
show_prev_frame(v, ret) ==
    LET v1 == save_metadata_from_table(v)
    IN  IF v1.exc # "none" THEN v1
        ELSE IF v1.idx > 0
        THEN update_display([v1 EXCEPT !.idx = @ - 1], ret)
        ELSE v1

\* lines 331-343: the header and the rows csv.DictWriter writes
csv_header(log) ==
    LET all_keys == UNION {DictKeys(log[i].controls) : i \in 1..Len(log)}
    IN  << "timestamp" >> \o SortedKeys(all_keys)

csv_row_skipping(meta, fieldnames) ==
    << SecondsText(meta.timestamp) >> \o
    LET keys == SelectSeq(Tail(fieldnames), LAMBDA k : k \in DictKeys(meta.controls))
    IN  [c \in 1..Len(keys) |-> Str(DictGet(meta.controls, keys[c]))]

csv_row(meta, fieldnames) ==
    [c \in 1..Len(fieldnames) |->
        IF c = 1 THEN SecondsText(meta.timestamp)
        ELSE IF fieldnames[c] \in DictKeys(meta.controls)
             THEN Str(DictGet(meta.controls, fieldnames[c]))
             ELSE ""]

csv_rows(log) ==
    LET fieldnames == csv_header(log)
    IN  << fieldnames >> \o [i \in 1..Len(log) |-> csv_row(log[i], fieldnames)]

NoFile == [written |-> FALSE, rows |-> <<>>]
File(rows) == [written |-> TRUE, rows |-> rows]

\* save_metadata; chosen: the dialog returned a path; opened: open() succeeded.
\* The result is the view and the file written (NoFile when none was).
save_metadata(v, chosen, opened) ==
    LET v1 == save_metadata_from_table(v)
    IN  IF v1.exc # "none" THEN [view |-> v1, file |-> NoFile]
        ELSE IF ~chosen THEN [view |-> v1, file |-> NoFile]
        ELSE IF ~opened
        THEN [view |-> ShowMessage(v1, <<"Failed to save file", "">>), file |-> NoFile]
        ELSE IF Len(v1.log) = 0
        THEN [view |-> v1, file |-> File(<<>>)]
        ELSE [view |-> ShowMessage(v1, <<"Saved metadata to", "">>),
              file |-> File(csv_rows(v1.log))]

\* --------------------------------------------------------------------------
\* data_handler.py: the parsers
\* --------------------------------------------------------------------------
\* A text file is the list of its lines and a line is the list of its
\* comma-separated fields, each stripped of blanks; a blank line is the single
\* empty field.  A number is a tagged cell, [num |-> TRUE], and text is
\* [num |-> FALSE].
BlankLine == << "" >>

\* The outcome of a parser: the exception raised ("none" when it returned) and
\* the value returned.
Parsed(value) == [raised |-> "none", value |-> value]
ParseError(e) == [raised |-> e, value |-> <<>>]

\* parts[0].lower().startswith("frame")
StartsWithFrame(field) == field \in {"frame", "Frame", "frame_number"}
\* parts[0].isdigit()
IsDigit(field) == field \in {"0", "1", "2", "3"}
\* ts.lower().startswith("timestamp")
StartsWithTimestamp(field) == field \in {"timestamp", "Timestamp"}

\* _validate_timestamp: text with a comma in it never matches the format
ValidTimestamp(ts) == Len(ts) = 1 /\ Strptime(ts[1]) # NoTime

\* lines 25-39, one turn of the loop of parse_frame_times: the line is
\* skipped, or its timestamp is appended, or validation raises
frame_time_of(line) ==
    IF line = BlankLine
    THEN [kind |-> "skip", ts |-> ""]
    ELSE LET comma == Len(line) > 1
             ts == IF comma /\ (StartsWithFrame(line[1]) \/ IsDigit(line[1]))
                   THEN << line[Len(line)] >>
                   ELSE line
         IN  IF comma /\ StartsWithTimestamp(ts[1])
             THEN [kind |-> "skip", ts |-> ""]
             ELSE IF ts = << "FILE_START" >>
             THEN [kind |-> "skip", ts |-> ""]
             ELSE IF ValidTimestamp(ts)
             THEN [kind |-> "time", ts |-> ts[1]]
             ELSE [kind |-> "raise", ts |-> ""]

\* parse_frame_times on the lines of the file
parse_frame_times(lines) ==
    LET turns == [i \in 1..Len(lines) |-> frame_time_of(lines[i])]
        kept == SelectSeq(turns, LAMBDA t : t.kind = "time")
    IN  IF \E i \in 1..Len(turns) : turns[i].kind = "raise"
        THEN ParseError("ValueError")
        ELSE IF Len(kept) = 0
        THEN ParseError("ValueError")
        ELSE Parsed([i \in 1..Len(kept) |-> kept[i].ts])

\* A DataFrame: its column names and its rows, each a list of cells
DataFrame(columns, rows) == [columns |-> columns, rows |-> rows]

ColumnIndex(df, name) ==
    CHOOSE c \in 1..Len(df.columns) : df.columns[c] = name

HasColumn(df, name) == \E c \in 1..Len(df.columns) : df.columns[c] = name

\* The same parser raising on a row whose timestamp does not validate.
parse_spectral_data_strict(lines) ==
    LET body == SelectSeq(Tail(lines), LAMBDA l : l # BlankLine)
    IN  IF Len(lines) = 0 \/ Len(body) = 0
        THEN ParseError("EmptyDataError")
        ELSE IF Len(body) = 1
        THEN ParseError("ValueError")
        ELSE LET header == [c \in 1..Len(body[1]) |->
                               IF body[1][c] = "KecmTimestamp"
                               THEN "timestamp" ELSE body[1][c]]
                 df == DataFrame(header, Tail(body))
             IN  IF ~HasColumn(df, "timestamp")
                 THEN ParseError("ValueError")
                 ELSE LET t == ColumnIndex(df, "timestamp")
                      IN  IF \E i \in 1..Len(df.rows) : Strptime(df.rows[i][t]) = NoTime
                          THEN ParseError("ValueError")
                          ELSE Parsed(df)

\* parse_spectral_data on the lines of the file.  read_csv(skiprows=1) drops
\* the first line and blank lines and takes the next line as the header; with
\* no header line left it raises EmptyDataError.  The rename of a column
\* named 0 (line 55) never applies to a file with a header line.
\* Cells keep their text: to_numeric(errors="ignore") (lines 72-75) changes
\* the type of a column, not the number float() reads from a cell.
parse_spectral_data(lines) ==
    LET body == SelectSeq(Tail(lines), LAMBDA l : l # BlankLine)
    IN  IF Len(lines) = 0 \/ Len(body) = 0
        THEN ParseError("EmptyDataError")
        ELSE IF Len(body) = 1
        THEN ParseError("ValueError")
        ELSE LET header == [c \in 1..Len(body[1]) |->
                               IF body[1][c] = "KecmTimestamp"
                               THEN "timestamp" ELSE body[1][c]]
                 df == DataFrame(header, Tail(body))
             IN  IF ~HasColumn(df, "timestamp")
                 THEN ParseError("ValueError")
                 ELSE LET t == ColumnIndex(df, "timestamp")
                      IN  Parsed(DataFrame(header,
                              SelectSeq(df.rows, LAMBDA r : Strptime(r[t]) # NoTime)))

\* The same step keeping every value as text.
keep_text(val) == [num |-> FALSE, text |-> val]

\* lines 88-92: float(val) where it parses, else the text
Coerce(val) ==
    IF IsFloatText(val)
    THEN [num |-> TRUE, text |-> Str(FloatOf(val))]
    ELSE [num |-> FALSE, text |-> val]

\* "=" in p, and p.split("=", 1), for the pieces the metadata files hold
HasEquals(piece) == piece \in {"x=1", "x=2", "y=foo"}
SplitEquals(piece) ==
    CASE piece = "x=1" -> << "x", "1" >>
      [] piece = "x=2" -> << "x", "2" >>
      [] piece = "y=foo" -> << "y", "foo" >>

\* parse_metadata on the lines of the file: readline() is the first line, or
\* the empty text at the end of an empty file
parse_metadata(lines, num_rows) ==
    LET line == IF Len(lines) = 0 THEN <<>> ELSE lines[1]
        pieces == SelectSeq(line, HasEquals)
        pairs == [c \in 1..Len(pieces) |-> SplitEquals(pieces[c])]
        columns == [c \in 1..Len(pairs) |-> pairs[c][1]]
        values == [c \in 1..Len(pairs) |-> Coerce(pairs[c][2])]
    IN  Parsed(DataFrame(columns, Repeat(values, num_rows)))

\* --------------------------------------------------------------------------
\* Specification of the aligner: inputs drawn at Init, one action per call
\* --------------------------------------------------------------------------
NotCalled == [raised |-> "none", index |-> -2]

IsSortedByTime(times) ==
    \A i \in 1..(Len(times) - 1) : Strptime(times[i]) <= Strptime(times[i + 1])

SortedTimes ==
    UNION { { t \in [1..n -> TsStrings] : IsSortedByTime(t) } : n \in 0..MaxLen }

NearestInit ==
    /\ nn_times \in SortedTimes
    /\ nn_query \in TsStrings
    /\ nn_bisect = NotCalled
    /\ nn_linear = NotCalled
    /\ FirIdle
    /\ ViewerIdle
    /\ MainIdle
    /\ PureIdle

\* VideoSpectraViewer._get_nearest_spectra: the bisect search over the float rows
GetNearestSpectra ==
    /\ nn_bisect' = nearest_by_timestamp(FloatRows(nn_times), Strptime(nn_query))
    /\ UNCHANGED <<nn_times, nn_query, nn_linear, firVars, viewerVars, mainVars, pureVars>>

\* MainViewerWindow._find_nearest_frame_index: the linear scan over the strings
FindNearestFrameIndex ==
    /\ nn_linear' = find_nearest_frame_index(nn_times, nn_query)
    /\ UNCHANGED <<nn_times, nn_query, nn_bisect, firVars, viewerVars, mainVars, pureVars>>

NearestNext == GetNearestSpectra \/ FindNearestFrameIndex

SpecNearest == NearestInit /\ [][NearestNext]_vars

\* --------------------------------------------------------------------------
\* Claims about the aligner
\* --------------------------------------------------------------------------
nn_rows == FloatRows(nn_times)
nn_q == Strptime(nn_query)
nn_dist(i) == Abs(nn_rows[i].timestamp - nn_q)
nn_called == nn_bisect # NotCalled
nn_hit == nn_bisect.index + 1     \* sequence position of the returned row

\* C1 (as stated): on a non-empty sorted dataset nearest_by_timestamp returns a
\* row of minimal distance to the query, and of all rows at that distance it
\* returns the leftmost one.
C1_LeftmostOfEquallyDistant ==
    (nn_called /\ Len(nn_times) > 0) =>
        /\ nn_bisect.raised = "none"
        /\ nn_hit \in 1..Len(nn_times)
        /\ \A j \in 1..Len(nn_times) : nn_dist(nn_hit) <= nn_dist(j)
        /\ \A j \in 1..(nn_hit - 1) : nn_dist(j) > nn_dist(nn_hit)

\* C1 (amended): the returned row is a row of the dataset of minimal distance
\* to the query, and no equally distant row has an earlier timestamp: a tie
\* between the two neighbouring timestamps goes to the earlier timestamp.
C1_MinimalDistanceEarlierTimestamp ==
    (nn_called /\ Len(nn_times) > 0) =>
        /\ nn_bisect.raised = "none"
        /\ nn_hit \in 1..Len(nn_times)
        /\ \A j \in 1..Len(nn_times) : nn_dist(nn_hit) <= nn_dist(j)
        /\ \A j \in 1..Len(nn_times) :
              nn_dist(j) = nn_dist(nn_hit)
                  => nn_rows[nn_hit].timestamp <= nn_rows[j].timestamp

\* A call whose query lies exactly between two different timestamps, answered
\* with the earlier one.
C1_Witness ==
    /\ nn_called
    /\ nn_bisect.raised = "none"
    /\ \E j \in 1..Len(nn_times) :
          /\ nn_rows[j].timestamp > nn_rows[nn_hit].timestamp
          /\ nn_dist(j) = nn_dist(nn_hit)
          /\ nn_dist(j) > 0

\* C2 (as stated): queried with the timestamp of any row r of the dataset,
\* nearest_by_timestamp returns that very row r, also when several rows share
\* the timestamp.
C2_ReturnsEveryRowQueried ==
    nn_called =>
        \A i \in 1..Len(nn_times) :
            nn_rows[i].timestamp = nn_q => nn_hit = i

\* C2 (amended): queried with a timestamp that occurs in the dataset,
\* nearest_by_timestamp returns the first row carrying that timestamp (the
\* row itself when the timestamp occurs once).
C2_ReturnsFirstRowWithTimestamp ==
    nn_called =>
        \A i \in 1..Len(nn_times) :
            (/\ nn_rows[i].timestamp = nn_q
             /\ \A j \in 1..(i - 1) : nn_rows[j].timestamp # nn_q)
                => (nn_bisect.raised = "none" /\ nn_hit = i)

\* A call with the timestamp of two rows that share it, away from the start of
\* the dataset, answered with the first of the two.
C2_Witness ==
    /\ nn_called
    /\ nn_bisect.raised = "none"
    /\ nn_hit > 1
    /\ nn_hit < Len(nn_times)
    /\ nn_rows[nn_hit].timestamp = nn_q
    /\ nn_rows[nn_hit + 1].timestamp = nn_q

\* C3: nearest_by_timestamp raises exactly when the dataset is empty; a query
\* before the first timestamp returns the first row and a query after the last
\* timestamp returns the last row.
C3_RaisesOnlyOnEmptyAndClamps ==
    nn_called =>
        /\ (nn_bisect.raised # "none") <=> (Len(nn_times) = 0)
        /\ Len(nn_times) = 0 => nn_bisect.raised = "ValueError"
        /\ (Len(nn_times) > 0 /\ nn_q < nn_rows[1].timestamp) => nn_hit = 1
        /\ (Len(nn_times) > 0 /\ nn_q > nn_rows[Len(nn_times)].timestamp)
              => nn_hit = Len(nn_times)

\* A call on a dataset of several rows with a query after its last timestamp,
\* answered with the last row.
C3_Witness ==
    /\ nn_called
    /\ Len(nn_times) > 1
    /\ nn_q > nn_rows[Len(nn_times)].timestamp
    /\ nn_bisect = Returned(Len(nn_times) - 1)

\* C4: on every sorted dataset and query the bisect search over float seconds
\* and the linear scan over formatted timestamps select the same index (and
\* fail together on the empty dataset).
C4_BothSearchesAgree ==
    (nn_called /\ nn_linear # NotCalled) =>
        /\ nn_bisect.index = nn_linear.index
        /\ (nn_bisect.raised = "none") <=> (nn_linear.raised = "none")

\* --------------------------------------------------------------------------
\* Specification of the smoothing filter: inputs drawn at Init, one call
\* --------------------------------------------------------------------------
FirValues == {0, 1}

FirRowInputs == UNION { [1..n -> FirValues] : n \in 0..MaxRowLen }

FirDataInputs == UNION { [1..n -> FirRowInputs] : n \in 0..MaxRows }

FirNotCalled == [called |-> FALSE, raised |-> "none", rows |-> <<>>]

FirInit ==
    /\ fir_data \in FirDataInputs
    /\ fir_numtaps \in {2, 3, DefaultTaps, PlotTaps}
    /\ fir_optimized \in BOOLEAN
    /\ fir_out = FirNotCalled
    /\ NearestIdle
    /\ ViewerIdle
    /\ MainIdle
    /\ PureIdle

ApplyFirFilter ==
    /\ fir_out = FirNotCalled
    /\ fir_out' = apply_fir_filter(fir_data, fir_numtaps, fir_optimized)
    /\ UNCHANGED <<fir_data, fir_numtaps, fir_optimized, nnVars, viewerVars, mainVars, pureVars>>

FirNext == ApplyFirFilter

SpecFir == FirInit /\ [][FirNext]_vars

\* --------------------------------------------------------------------------
\* Claims about the smoothing filter
\* --------------------------------------------------------------------------
\* C10: for input rows of any length, zero included, apply_fir_filter returns
\* without raising and each output row has as many values as its input row, on
\* the numpy/scipy path and on the fallback path.
C10_SameLengthNeverRaises ==
    fir_out.called =>
        /\ fir_out.raised = "none"
        /\ \A r \in 1..Len(fir_data) :
              /\ r <= Len(fir_out.rows)
              /\ Len(fir_out.rows[r]) = Len(fir_data[r])

\* --------------------------------------------------------------------------
\* Specification of VideoSpectraViewer: the window after construction and one
\* action per button, plus the operator editing a cell of the table
\* --------------------------------------------------------------------------
\* The control file given with --controls: none, or two rows with columns b, a
ControlFiles ==
    { <<>>,
      << FrameMetadata(0, {<<"a", 1>>, <<"b", 2>>}),
         FrameMetadata(1000000, {<<"a", 2>>, <<"b", 2>>}) >> }

\* The spectra file: no rows, two rows of two channels, one row of no channel
SpectraFiles ==
    { <<>>,
      << [timestamp |-> 0, y |-> <<1, 2>>], [timestamp |-> 1000000, y |-> <<2, 1>>] >>,
      << [timestamp |-> 0, y |-> <<>>] >> }

\* What the operator types into a cell: a number, or text that is no number
EditTexts == {"2", "abc"}

CurrentView == View(control_log, current_frame_index, meta_table, <<>>, "none")

\* The handler's result becomes the state of the window
Becomes(v) ==
    /\ control_log' = v.log
    /\ current_frame_index' = v.idx
    /\ meta_table' = v.table
    /\ status_msgs' = v.msgs
    /\ exc' = v.exc

\* __init__, lines 80-103: the window exists when the constructor returned
ViewerInit ==
    /\ spectra_data \in SpectraFiles
    /\ total_frames \in 0..MaxFrames
    /\ fps \in {0, 2}
    /\ fir_optimized \in BOOLEAN
    /\ current_frame_index = 0
    /\ \E log0 \in ControlFiles, ret \in BOOLEAN :
          LET v == update_display(View(log0, 0, <<>>, <<>>, "none"), ret)
          IN  /\ v.exc = "none"
              /\ control_log = v.log
              /\ meta_table = v.table
              /\ status_msgs = v.msgs
    /\ csv_file = NoFile
    /\ exc = "none"
    /\ h_edits = 0
    /\ NearestIdle
    /\ FirCallIdle
    /\ MainIdle
    /\ PureIdle

ViewerFixed == <<spectra_data, total_frames, fps, nnVars, firVars, mainVars, pureVars>>

\* The operator types text into cell (0, c) of the table
EditCell ==
    /\ exc = "none"
    /\ h_edits < MaxEdits
    /\ \E c \in 1..Len(meta_table), text \in EditTexts :
          meta_table' = [meta_table EXCEPT ![c] = Column(@.header, TRUE, text)]
    /\ h_edits' = h_edits + 1
    /\ csv_file' = NoFile
    /\ UNCHANGED <<control_log, current_frame_index, status_msgs, exc, ViewerFixed>>

ShowNextFrame ==
    /\ exc = "none"
    /\ \E ret \in BOOLEAN : Becomes(show_next_frame(CurrentView, ret))
    /\ csv_file' = NoFile
    /\ UNCHANGED <<h_edits, ViewerFixed>>

ShowPrevFrame ==
    /\ exc = "none"
    /\ \E ret \in BOOLEAN : Becomes(show_prev_frame(CurrentView, ret))
    /\ csv_file' = NoFile
    /\ UNCHANGED <<h_edits, ViewerFixed>>

SaveMetadata ==
    /\ exc = "none"
    /\ \E chosen \in BOOLEAN, opened \in BOOLEAN :
          LET r == save_metadata(CurrentView, chosen, opened)
          IN  /\ Becomes(r.view)
              /\ csv_file' = r.file
    /\ UNCHANGED <<h_edits, ViewerFixed>>

Next == EditCell \/ ShowNextFrame \/ ShowPrevFrame \/ SaveMetadata

Spec == ViewerInit /\ [][Next]_vars

\* --------------------------------------------------------------------------
\* Claims about VideoSpectraViewer
\* --------------------------------------------------------------------------
AllControlKeys == UNION {DictKeys(control_log[i].controls) : i \in 1..Len(control_log)}

\* Position of a key in the order of its code points
KeyRank(k) == CASE k = "No Controls" -> 0 [] k = "a" -> 1 [] OTHER -> 2

\* C6: the file save_metadata writes starts with the header `timestamp`
\* followed by the sorted union of the control keys of all records, then holds
\* one row per record of control_log, in order, whose cell under a key is the
\* record's value for it, or the empty string when the record lacks the key.
C6_MetadataExportUnion ==
    csv_file.written =>
        LET header == csv_file.rows[1]
        IN  /\ Len(csv_file.rows) = Len(control_log) + 1
            /\ header[1] = "timestamp"
            /\ Len(header) = 1 + Cardinality(AllControlKeys)
            /\ {header[c] : c \in 2..Len(header)} = AllControlKeys
            /\ \A c, d \in 2..Len(header) :
                  c < d => KeyRank(header[c]) < KeyRank(header[d])
            /\ \A i \in 1..Len(control_log) :
                  LET row == csv_file.rows[i + 1]
                      controls == control_log[i].controls
                  IN  /\ Len(row) = Len(header)
                      /\ row[1] = SecondsText(control_log[i].timestamp)
                      /\ \A c \in 2..Len(header) :
                            row[c] = IF header[c] \in DictKeys(controls)
                                     THEN Str(DictGet(controls, header[c]))
                                     ELSE ""

\* A file with two key columns in which some record lacks a key that another
\* record has.
C6_Witness ==
    /\ csv_file.written
    /\ Len(csv_file.rows) >= 3
    /\ Len(csv_file.rows[1]) >= 3
    /\ \E i \in 2..Len(csv_file.rows) : \E c \in 2..Len(csv_file.rows[i]) :
          csv_file.rows[i][c] = ""
    /\ \E i \in 2..Len(csv_file.rows) : \E c \in 2..Len(csv_file.rows[i]) :
          csv_file.rows[i][c] # ""

C7_Step ==
    /\ Len(control_log') >= Len(control_log)
    /\ \A j \in 1..Len(control_log) :
          j # current_frame_index + 1
              => control_log'[j].controls = control_log[j].controls

\* C7: no handler removes a record from control_log, and no handler changes
\* the controls of a record other than the one of the frame being shown when
\* it starts: what was committed for a frame is still in its record when the
\* operator comes back to the frame.
C7_RecordsKeptWhileAway == [][C7_Step]_vars

\* Frame 0 shown again after its record received a typed value: the table
\* holds the value as rebuilt from the record, and a later frame has a record.
C7_Witness ==
    /\ current_frame_index = 0
    /\ Len(control_log) >= 2
    /\ control_log[1].controls = {<<"No Controls", 2>>}
    /\ meta_table = << Column("No Controls", TRUE, "2.0") >>

C8_Step ==
    (h_edits' = h_edits /\ current_frame_index < Len(control_log)) =>
        LET committed == control_log'[current_frame_index + 1].controls
            shown == {status_msgs'[m] : m \in 1..Len(status_msgs')}
        IN  /\ \A c \in 1..Len(meta_table) :
                  meta_table[c].has_item =>
                      IF IsFloatText(meta_table[c].text)
                      THEN <<meta_table[c].header, FloatOf(meta_table[c].text)>>
                               \in committed
                      ELSE /\ meta_table[c].header \notin DictKeys(committed)
                           /\ <<"Invalid value in column", meta_table[c].header>>
                                  \in shown
            /\ DictKeys(committed) \subseteq
                  {meta_table[c].header : c \in 1..Len(meta_table)}

C9_RecordForCurrentFrame ==
    exc = "none" => current_frame_index < Len(control_log)

\* _update_display has run in the handler that ended: it left its message on
\* the status bar, or its exception escaped.
DisplayMessage(msgs) ==
    \E m \in 1..Len(msgs) : msgs[m][1] \in {"Failed to read frame", "Frame i/n"}

\* What the claim asks of a click on Next: one frame forward and a refreshed
\* display below the last frame, nothing of either on the last frame.
C22_NextAsClaimed ==
    IF current_frame_index < total_frames - 1
    THEN /\ current_frame_index' = current_frame_index + 1
         /\ (DisplayMessage(status_msgs') \/ exc' # "none")
    ELSE /\ current_frame_index' = current_frame_index
         /\ ~DisplayMessage(status_msgs')

\* The same of a click on Previous, at frame 0.
C22_PrevAsClaimed ==
    IF current_frame_index > 0
    THEN /\ current_frame_index' = current_frame_index - 1
         /\ (DisplayMessage(status_msgs') \/ exc' # "none")
    ELSE /\ current_frame_index' = current_frame_index
         /\ ~DisplayMessage(status_msgs')

C22_Step ==
    /\ ShowNextFrame => C22_NextAsClaimed
    /\ ShowPrevFrame => C22_PrevAsClaimed

C22_InRange ==
    /\ 0 <= current_frame_index
    /\ current_frame_index <= (IF total_frames >= 1 THEN total_frames - 1 ELSE 0)

\* C22: show_next_frame moves current_frame_index forward by exactly one and
\* refreshes the display when current_frame_index < total_frames - 1, and
\* otherwise leaves the index as it is without a refresh; show_prev_frame does
\* the same backwards, stopping at index 0; so the index always stays within
\* 0 .. max(0, total_frames - 1).
C22_NextPrevStepByOneInRange == []C22_InRange /\ [][C22_Step]_vars

\* --------------------------------------------------------------------------
\* output_writer.py: write_csv, and data_handler.py: validate_row_counts
\* --------------------------------------------------------------------------
\* to_csv of an integer and of a float frame number
IntText(i) ==
    CASE i = 0 -> "0" [] i = 1 -> "1" [] i = 2 -> "2" [] i = 3 -> "3"
      [] OTHER -> "many"
FloatFrameText(i) ==
    CASE i = 0 -> "0.0" [] i = 1 -> "1.0" [] i = 2 -> "2.0" [] i = 3 -> "3.0"
      [] OTHER -> "many"

\* drop(columns=["timestamp"], errors="ignore") on the columns and on a row
WithoutTimestamp(df, cells) ==
    LET kept == SelectSeq([c \in 1..Len(df.columns) |-> c],
                          LAMBDA c : df.columns[c] # "timestamp")
    IN  [k \in 1..Len(kept) |-> cells[kept[k]]]

CsvWritten(lines) == [called |-> TRUE, raised |-> "none", lines |-> lines]
CsvFailed == [called |-> TRUE, raised |-> "IOError", lines |-> <<>>]

\* write_csv, lines 21-37.  The file is the header line and one line per row
\* of the concatenated frame.  concat(axis=1) joins on the row index, so the
\* frame has as many rows as the longest of its three parts, with NaN (an
\* empty cell) where a part has no such row; a frame column that holds NaN
\* is a float column.  Spectral cells are written with the text they were
\* read with.  Every exception leaves as IOError.
write_csv(writable, the_frame_times, the_spectral_df, the_metadata_df) ==
    LET n == Len(the_frame_times)
        trimmed == IF Len(the_spectral_df.rows) <= n
                   THEN the_spectral_df.rows
                   ELSE SubSeq(the_spectral_df.rows, 1, n)
        m == Len(the_metadata_df.rows)
        total == IF m > n THEN m ELSE n
        t == ColumnIndex(the_spectral_df, "timestamp")
        blank(columns) == [c \in 1..Len(columns) |-> ""]
        header == <<"frame", "frame_timestamp", "spectral_timestamp">>
                  \o WithoutTimestamp(the_spectral_df, the_spectral_df.columns)
                  \o the_metadata_df.columns
        line(i) ==
            (IF i <= n
             THEN << IF m > n THEN FloatFrameText(i - 1) ELSE IntText(i - 1),
                     the_frame_times[i], trimmed[i][t] >>
                  \o WithoutTimestamp(the_spectral_df, trimmed[i])
             ELSE <<"", "", "">>
                  \o WithoutTimestamp(the_spectral_df, blank(the_spectral_df.columns)))
            \o (IF i <= m
                THEN [c \in 1..Len(the_metadata_df.columns) |->
                         the_metadata_df.rows[i][c].text]
                ELSE blank(the_metadata_df.columns))
    IN  IF ~HasColumn(the_spectral_df, "timestamp")
        THEN CsvFailed
        ELSE IF Len(trimmed) # n
        THEN CsvFailed
        ELSE IF ~writable
        THEN CsvFailed
        ELSE CsvWritten(<< header >> \o [i \in 1..total |-> line(i)])

\* The same validator letting spare spectral rows pass.
validate_at_most(the_frame_times, the_spectral_df) ==
    IF Len(the_frame_times) > Len(the_spectral_df.rows)
    THEN "ValueError"
    ELSE "none"

\* validate_row_counts, lines 98-103: the exception raised, or "none"
validate_row_counts(the_frame_times, the_spectral_df) ==
    IF Len(the_frame_times) # Len(the_spectral_df.rows)
    THEN "ValueError"
    ELSE "none"

\* The frame and frame_timestamp columns of an exported file, as a file
FrameColumns(lines) == [i \in 1..Len(lines) |-> << lines[i][1], lines[i][2] >>]

\* --------------------------------------------------------------------------
\* viewer.py: MainViewerWindow
\* --------------------------------------------------------------------------
\* The files on disk.  A path is <<directory, file name>>; the empty path <<>>
\* is the empty string a cancelled dialog returns.
NoPath == <<>>

T0 == "20200101_000000.000000"
T05 == "20200101_000000.500000"
T1 == "20200101_000001.000000"
T2 == "20200101_000002.000000"

Dirs == {"ExampleFiles", "Run2", "BadTimes", "NoSpectra", "NoColumn",
         "Sentinels", "Incomplete"}

\* Path.exists(): the directory Incomplete holds the video only
Exists(path) == path[1] \in Dirs /\ (path[1] = "Incomplete" => path[2] = "video.avi")

FrameTimesLines(dir) ==
    CASE dir = "Run2" ->
             << <<"frame", "timestamp">>, <<"0", T0>>, <<"1", T05>> >>
      [] dir = "BadTimes" ->
             << <<T0>>, <<"garbage">> >>
      [] OTHER ->
             << <<"FILE_START">>, <<T0>>, <<T1>>, <<T2>>, BlankLine >>

SpectralLines(dir) ==
    CASE dir = "Run2" ->
             << <<"FILE_START">>, <<"timestamp", "2", "1">>,
                <<T0, "1", "2">>, <<T05, "2", "2">>, <<T2, "1", "1">> >>
      [] dir = "NoSpectra" ->
             << <<"FILE_START">>, <<"KecmTimestamp", "1", "2">> >>
      [] dir = "NoColumn" ->
             << <<"FILE_START">>, <<"time", "1", "2">>, <<T0, "1", "2">> >>
      [] dir = "Sentinels" ->
             << <<"FILE_START">>, <<"KecmTimestamp", "1", "2">>,
                <<"FILE_END", "", "">> >>
      [] OTHER ->
             << <<"FILE_START">>, <<"KecmTimestamp", "1", "2">>,
                <<T0, "1", "2">>, <<T1, "2", "1">>, <<"FILE_END", "", "">> >>

MetadataLines(dir) ==
    CASE dir = "Run2" -> << <<"x=2">> >>
      [] OTHER -> << <<"x=1", "y=foo">> >>

\* open(path) / read_csv(path): the lines of the file, or FileNotFoundError
ReadFile(path) ==
    IF ~Exists(path)
    THEN ParseError("FileNotFoundError")
    ELSE Parsed(CASE path[2] = "frame_times.txt" -> FrameTimesLines(path[1])
                  [] path[2] = "parsed_data.txt" -> SpectralLines(path[1])
                  [] path[2] = "control_inputs_log.txt" -> MetadataLines(path[1]))

\* A parser applied to a path: the file is opened and then parsed
parse_frame_times_at(path) ==
    IF ReadFile(path).raised # "none"
    THEN ReadFile(path)
    ELSE parse_frame_times(ReadFile(path).value)

parse_spectral_data_at(path) ==
    IF ReadFile(path).raised # "none"
    THEN ReadFile(path)
    ELSE parse_spectral_data(ReadFile(path).value)

parse_metadata_at(path, num_rows) ==
    IF ReadFile(path).raised # "none"
    THEN ReadFile(path)
    ELSE parse_metadata(ReadFile(path).value, num_rows)

\* cap.get(cv2.CAP_PROP_FRAME_COUNT) of the video in a directory
FrameCount(path) == IF path[1] = "Run2" THEN 2 ELSE 3

\* cv2.VideoCapture(path)
VideoCapture(path) == [path |-> path, open |-> TRUE]

\* cap.release()
Release(c) == [c EXCEPT !.open = FALSE]

\* The window, passed from step to step of a handler.
Window(paths, c, total, frame, row, times, spectral, metadata, table, label, warned, caps, e) ==
    [video_path |-> paths[1], frame_times_path |-> paths[2],
     spectral_path |-> paths[3], metadata_path |-> paths[4],
     output_path |-> paths[5], cap |-> c, total_frames |-> total,
     current_frame |-> frame, current_row |-> row, frame_times |-> times,
     spectral_df |-> spectral, metadata_df |-> metadata,
     metadataTable |-> table, videoLabel |-> label, warnings |-> warned,
     open_caps |-> caps, peak_caps |-> caps, export_file |-> <<>>, exc |-> e]

\* self.cap = cv2.VideoCapture(path): one more capture is open
OpenCapture(w, path) ==
    LET opened == w.open_caps + 1
    IN  [w EXCEPT !.cap = VideoCapture(path),
                  !.open_caps = opened,
                  !.peak_caps = IF opened > @ THEN opened ELSE @]

\* The same call releasing nothing.
release_nothing(w) == w

\* self.cap.release(): releasing a released capture does nothing
ReleaseCapture(w) ==
    [w EXCEPT !.cap = Release(@),
              !.open_caps = IF w.cap.open THEN @ - 1 ELSE @]

\* QMessageBox.warning(self, title, text)
Warn(w, title, text) == [w EXCEPT !.warnings = Append(@, <<title, text>>)]

\* lines 179-224: the frame is shown when the index is in range and the
\* capture, still open, holds a frame at that position
display_frame(w, index) ==
    IF index < 0 \/ index >= w.total_frames
    THEN w
    ELSE IF ~(w.cap.open /\ index < FrameCount(w.cap.path))
    THEN w
    ELSE [w EXCEPT !.videoLabel = index]

\* lines 291-301: float(spectra_row[k]) raises ValueError on a cell of a
\* numeric column that holds text; an empty cell is NaN
plot_spectra_row_raises(df, row) ==
    \E c \in 1..Len(df.columns) :
        /\ df.columns[c] # "timestamp"
        /\ IsFloatText(df.columns[c])
        /\ ~(IsFloatText(row[c]) \/ row[c] = "")

\* lines 226-240
update_spectrum_row(w, row_index, row) ==
    IF plot_spectra_row_raises(w.spectral_df, row)
    THEN Fail(w, "ValueError")
    ELSE w

\* lines 242-248: the table gets one cell per column of metadata_df, each the
\* str() of the value at row index; iloc raises IndexError past the last row,
\* after the column count and the headers are set
mw_update_metadata_table(w, index) ==
    LET df == w.metadata_df
        n == Len(df.columns)
        resized == [c \in 1..n |->
                       IF c <= Len(w.metadataTable)
                       THEN [w.metadataTable[c] EXCEPT !.header = df.columns[c]]
                       ELSE Column(df.columns[c], FALSE, "")]
    IN  IF n > 0 /\ index >= Len(df.rows)
        THEN Fail([w EXCEPT !.metadataTable = resized], "IndexError")
        ELSE [w EXCEPT !.metadataTable =
                 [c \in 1..n |->
                     Column(df.columns[c], TRUE, df.rows[index + 1][c].text)]]

\* lines 165-174
display_row(w, row_index) ==
    IF row_index < 0 \/ row_index >= Len(w.spectral_df.rows)
    THEN w
    ELSE LET row == w.spectral_df.rows[row_index + 1]
             t == ColumnIndex(w.spectral_df, "timestamp")
             found == find_nearest_frame_index(w.frame_times, row[t])
         IN  IF found.raised # "none"
             THEN Fail(w, found.raised)
             ELSE LET w1 == [w EXCEPT !.current_row = row_index,
                                      !.current_frame = found.index]
                      w2 == display_frame(w1, found.index)
                      w3 == update_spectrum_row(w2, row_index, row)
                  IN  IF w3.exc # "none"
                      THEN w3
                      ELSE mw_update_metadata_table(w3, found.index)

\* lines 305-309: each cell that holds an item is written, as text, into
\* metadata_df at the row labelled current_frame; .at adds the row when the
\* label is new, with NaN in the columns not written
NaN == [num |-> TRUE, text |-> "nan"]

save_current_metadata(w) ==
    LET df == w.metadata_df
        n == Len(df.columns)
        f == w.current_frame + 1
        has_item(c) == c <= Len(w.metadataTable) /\ w.metadataTable[c].has_item
        written(old) == [c \in 1..n |->
                            IF has_item(c)
                            THEN [num |-> FALSE, text |-> w.metadataTable[c].text]
                            ELSE old[c]]
    IN  IF ~\E c \in 1..n : has_item(c)
        THEN w
        ELSE IF f <= Len(df.rows)
        THEN [w EXCEPT !.metadata_df.rows[f] = written(@)]
        ELSE [w EXCEPT !.metadata_df.rows = Append(@, written([c \in 1..n |-> NaN]))]

\* lines 253-257
next_frame(w) ==
    IF w.current_row < Len(w.spectral_df.rows) - 1
    THEN LET saved == save_current_metadata(w)
         IN  display_row([saved EXCEPT !.current_row = @ + 1],
                         saved.current_row + 1)
    ELSE w

\* lines 259-263
prev_frame(w) ==
    IF w.current_row > 0
    THEN LET saved == save_current_metadata(w)
         IN  display_row([saved EXCEPT !.current_row = @ - 1],
                         saved.current_row - 1)
    ELSE w

\* lines 106-122
import_spectral(w, file_path) ==
    IF file_path = NoPath
    THEN w
    ELSE LET parsed == parse_spectral_data_at(file_path)
         IN  IF parsed.raised # "none"
             THEN Warn(w, "Error Loading Data", parsed.raised)
             ELSE display_row([w EXCEPT !.spectral_df = parsed.value,
                                        !.spectral_path = file_path],
                              w.current_row)

\* The same handler storing the path before the file is parsed.
import_frame_times_path_first(w, file_path) ==
    IF file_path = NoPath
    THEN w
    ELSE LET parsed == parse_frame_times_at(file_path)
             stored == [w EXCEPT !.frame_times_path = file_path]
         IN  IF parsed.raised # "none"
             THEN Warn(stored, "Error Loading Data", parsed.raised)
             ELSE LET total == Len(parsed.value)
                      w1 == [stored EXCEPT !.frame_times = parsed.value,
                                           !.total_frames = total,
                                           !.current_frame =
                                               IF @ >= total THEN 0 ELSE @]
                  IN  display_row(w1, w1.current_row)

\* lines 124-143
import_frame_times(w, file_path) ==
    IF file_path = NoPath
    THEN w
    ELSE LET parsed == parse_frame_times_at(file_path)
         IN  IF parsed.raised # "none"
             THEN Warn(w, "Error Loading Data", parsed.raised)
             ELSE LET total == Len(parsed.value)
                      w1 == [w EXCEPT !.frame_times = parsed.value,
                                      !.frame_times_path = file_path,
                                      !.total_frames = total,
                                      !.current_frame =
                                          IF @ >= total THEN 0 ELSE @]
                  IN  display_row(w1, w1.current_row)

\* lines 324-328: the four files of a data directory
DataFiles(directory) ==
    << <<directory[1], "video.avi">>, <<directory[1], "frame_times.txt">>,
       <<directory[1], "parsed_data.txt">>,
       <<directory[1], "control_inputs_log.txt">> >>

\* lines 348-354: the three parsers run in turn; the first exception ends the
\* try block
parse_all(files) ==
    LET times == parse_frame_times_at(files[2])
        spectral == parse_spectral_data_at(files[3])
        metadata == parse_metadata_at(files[4], Len(times.value))
    IN  IF times.raised # "none" THEN ParseError(times.raised)
        ELSE IF spectral.raised # "none" THEN ParseError(spectral.raised)
        ELSE IF metadata.raised # "none" THEN ParseError(metadata.raised)
        ELSE Parsed(<<times.value, spectral.value, metadata.value>>)

\* lines 314-372; chosen is the answer of the output-file dialog
import_data(w, directory, chosen) ==
    IF directory = NoPath
    THEN w
    ELSE LET files == DataFiles(directory)
         IN  IF \E i \in 1..Len(files) : ~Exists(files[i])
             THEN Warn(w, "Missing Files", "Required data files not found")
             ELSE LET out == IF chosen = NoPath
                             THEN <<directory[1], "output.csv">>
                             ELSE chosen
                      parsed == parse_all(files)
                  IN  IF parsed.raised # "none"
                      THEN Warn(w, "Error Loading Data", parsed.raised)
                      ELSE display_row(
                               [OpenCapture(ReleaseCapture(w), files[1])
                                  EXCEPT !.video_path = files[1],
                                         !.frame_times_path = files[2],
                                         !.spectral_path = files[3],
                                         !.metadata_path = files[4],
                                         !.output_path = out,
                                         !.total_frames = FrameCount(files[1]),
                                         !.current_frame = 0,
                                         !.current_row = 0,
                                         !.frame_times = parsed.value[1],
                                         !.spectral_df = parsed.value[2],
                                         !.metadata_df = parsed.value[3]],
                               0)

\* lines 311-312: write_csv on self.output_path; its IOError is not caught
export_csv(w, writable) ==
    LET written == write_csv(writable, w.frame_times, w.spectral_df, w.metadata_df)
    IN  IF written.raised # "none"
        THEN Fail(w, written.raised)
        ELSE [w EXCEPT !.export_file = written.lines]

\* lines 35-89: the constructor on the files of a directory.  An exception of
\* a parser leaves no window.
mw_init(directory) ==
    LET files == DataFiles(directory)
        times == parse_frame_times_at(files[2])
        spectral == parse_spectral_data_at(files[3])
        metadata == parse_metadata_at(files[4], Len(times.value))
        raised == IF times.raised # "none" THEN times.raised
                  ELSE IF spectral.raised # "none" THEN spectral.raised
                  ELSE metadata.raised
    IN  IF raised # "none"
        THEN Window(<<files[1], files[2], files[3], files[4], NoPath>>,
                    VideoCapture(files[1]), FrameCount(files[1]), 0, 0,
                    <<>>, DataFrame(<<>>, <<>>), DataFrame(<<>>, <<>>),
                    <<>>, -1, <<>>, 1, raised)
        ELSE display_row(
                 Window(<<files[1], files[2], files[3], files[4],
                          <<"", "output.csv">> >>,
                        VideoCapture(files[1]), FrameCount(files[1]), 0, 0,
                        times.value, spectral.value, metadata.value,
                        <<>>, -1, <<>>, 1, "none"),
                 0)

\* --------------------------------------------------------------------------
\* Specification of MainViewerWindow: the operator imports and steps
\* --------------------------------------------------------------------------
\* Directories the window is constructed on (the default is ExampleFiles)
StartDirs == {"ExampleFiles", "Run2"}

\* What the file dialogs return: a file of that name in a directory, or the
\* empty path when cancelled
FileAnswers(name) == {NoPath} \cup {<<d, name>> : d \in Dirs}
DirectoryAnswers == {NoPath} \cup {<<d>> : d \in Dirs}
OutputAnswers == {NoPath, <<"Reports", "aligned.csv">>}

CurrentWindow ==
    Window(<<video_path, frame_times_path, spectral_path, metadata_path,
             output_path>>,
           cap, mw_total_frames, current_frame, current_row, frame_times,
           spectral_df, metadata_df, metadataTable, videoLabel, <<>>,
           open_caps, mw_exc)

WindowBecomes(w) ==
    /\ video_path' = w.video_path
    /\ frame_times_path' = w.frame_times_path
    /\ spectral_path' = w.spectral_path
    /\ metadata_path' = w.metadata_path
    /\ output_path' = w.output_path
    /\ cap' = w.cap
    /\ mw_total_frames' = w.total_frames
    /\ current_frame' = w.current_frame
    /\ current_row' = w.current_row
    /\ frame_times' = w.frame_times
    /\ spectral_df' = w.spectral_df
    /\ metadata_df' = w.metadata_df
    /\ metadataTable' = w.metadataTable
    /\ videoLabel' = w.videoLabel
    /\ warnings' = w.warnings
    /\ open_caps' = w.open_caps
    /\ peak_caps' = w.peak_caps
    /\ export_file' = w.export_file
    /\ mw_exc' = w.exc

Dialog(handler, answers) == [handler |-> handler, answers |-> answers]

MainInit ==
    /\ \E d \in StartDirs :
          /\ mw_init(<<d>>).exc = "none"
          /\ video_path = mw_init(<<d>>).video_path
          /\ frame_times_path = mw_init(<<d>>).frame_times_path
          /\ spectral_path = mw_init(<<d>>).spectral_path
          /\ metadata_path = mw_init(<<d>>).metadata_path
          /\ output_path = mw_init(<<d>>).output_path
          /\ cap = mw_init(<<d>>).cap
          /\ mw_total_frames = mw_init(<<d>>).total_frames
          /\ current_frame = mw_init(<<d>>).current_frame
          /\ current_row = mw_init(<<d>>).current_row
          /\ frame_times = mw_init(<<d>>).frame_times
          /\ spectral_df = mw_init(<<d>>).spectral_df
          /\ metadata_df = mw_init(<<d>>).metadata_df
          /\ metadataTable = mw_init(<<d>>).metadataTable
          /\ videoLabel = mw_init(<<d>>).videoLabel
          /\ warnings = mw_init(<<d>>).warnings
          /\ open_caps = mw_init(<<d>>).open_caps
          /\ peak_caps = mw_init(<<d>>).peak_caps
          /\ export_file = mw_init(<<d>>).export_file
          /\ mw_exc = mw_init(<<d>>).exc
    /\ dialog = Dialog("__init__", <<>>)
    /\ mw_edits = 0
    /\ NearestIdle
    /\ FirIdle
    /\ ViewerIdle
    /\ PureIdle

\* A handler runs while the window is open and no exception has ended the
\* session.
Running == mw_exc = "none" /\ dialog.handler # "closeEvent"

MainFixed == <<nnVars, firVars, viewerVars, pureVars>>

ImportSpectral ==
    /\ Running
    /\ \E file_path \in FileAnswers("parsed_data.txt") :
          /\ WindowBecomes(import_spectral(CurrentWindow, file_path))
          /\ dialog' = Dialog("import_spectral", <<file_path>>)
    /\ UNCHANGED <<mw_edits, MainFixed>>

ImportFrameTimes ==
    /\ Running
    /\ \E file_path \in FileAnswers("frame_times.txt") :
          /\ WindowBecomes(import_frame_times(CurrentWindow, file_path))
          /\ dialog' = Dialog("import_frame_times", <<file_path>>)
    /\ UNCHANGED <<mw_edits, MainFixed>>

ImportData ==
    /\ Running
    /\ \E directory \in DirectoryAnswers, chosen \in OutputAnswers :
          /\ WindowBecomes(import_data(CurrentWindow, directory, chosen))
          /\ dialog' = Dialog("import_data", <<directory, chosen>>)
    /\ UNCHANGED <<mw_edits, MainFixed>>

NextFrame ==
    /\ Running
    /\ WindowBecomes(next_frame(CurrentWindow))
    /\ dialog' = Dialog("next_frame", <<>>)
    /\ UNCHANGED <<mw_edits, MainFixed>>

PrevFrame ==
    /\ Running
    /\ WindowBecomes(prev_frame(CurrentWindow))
    /\ dialog' = Dialog("prev_frame", <<>>)
    /\ UNCHANGED <<mw_edits, MainFixed>>

\* lines 152-155
CloseEvent ==
    /\ Running
    /\ WindowBecomes(ReleaseCapture(CurrentWindow))
    /\ dialog' = Dialog("closeEvent", <<>>)
    /\ UNCHANGED <<mw_edits, MainFixed>>

\* The export button: export_csv(self.output_path), lines 77-79
ExportCsv ==
    /\ Running
    /\ \E writable \in BOOLEAN :
          WindowBecomes(export_csv(CurrentWindow, writable))
    /\ dialog' = Dialog("export_csv", <<>>)
    /\ UNCHANGED <<mw_edits, MainFixed>>

MainNext ==
    \/ ExportCsv
    \/ ImportSpectral
    \/ ImportFrameTimes
    \/ ImportData
    \/ NextFrame
    \/ PrevFrame
    \/ CloseEvent

SpecMain == MainInit /\ [][MainNext]_vars

\* --------------------------------------------------------------------------
\* Specification of MainViewerWindow with an operator who also types into the
\* metadata table.  The dialogs of such a session are answered with files of
\* the complete data directories, or cancelled.
\* --------------------------------------------------------------------------
\* What the operator types into a cell of metadataTable
MainEditTexts == {"7"}

\* The operator types text into cell (0, c) of metadataTable
MainEditCell ==
    /\ Running
    /\ mw_edits < MaxTableEdits
    /\ \E c \in 1..Len(metadataTable), text \in MainEditTexts :
          metadataTable' = [metadataTable EXCEPT ![c] = Column(@.header, TRUE, text)]
    /\ mw_edits' = mw_edits + 1
    /\ dialog' = Dialog("edit_cell", <<>>)
    /\ warnings' = <<>>
    /\ peak_caps' = open_caps
    /\ export_file' = <<>>
    /\ UNCHANGED <<video_path, frame_times_path, spectral_path, metadata_path,
                   output_path, cap, mw_total_frames, current_frame,
                   current_row, frame_times, spectral_df, metadata_df,
                   videoLabel, open_caps, mw_exc, MainFixed>>

\* Every dialog of the handler was cancelled or answered within StartDirs
InDataDirs(d) ==
    \A i \in 1..Len(d.answers) :
        d.answers[i] = NoPath \/ d.answers[i][1] \in StartDirs

DataImportSpectral == ImportSpectral /\ InDataDirs(dialog')

DataImportFrameTimes == ImportFrameTimes /\ InDataDirs(dialog')

DataImportData == ImportData /\ InDataDirs(dialog')

MainEditNext ==
    \/ MainEditCell
    \/ DataImportSpectral
    \/ DataImportFrameTimes
    \/ DataImportData
    \/ NextFrame
    \/ PrevFrame
    \/ ExportCsv
    \/ CloseEvent

SpecMainEdit == MainInit /\ [][MainEditNext]_vars

\* --------------------------------------------------------------------------
\* Claims about the imports of MainViewerWindow
\* --------------------------------------------------------------------------
\* The import a handler was asked for fails while parsing: a file was chosen,
\* no required file is missing, and a parser raises on it.
ImportFailsParsing(d) ==
    \/ /\ d.handler = "import_spectral"
       /\ d.answers[1] # NoPath
       /\ parse_spectral_data_at(d.answers[1]).raised # "none"
    \/ /\ d.handler = "import_frame_times"
       /\ d.answers[1] # NoPath
       /\ parse_frame_times_at(d.answers[1]).raised # "none"
    \/ /\ d.handler = "import_data"
       /\ d.answers[1] # NoPath
       /\ \A i \in 1..4 : Exists(DataFiles(d.answers[1])[i])
       /\ parse_all(DataFiles(d.answers[1])).raised # "none"

\* C5: a failed import is a no-op.  In every step in which import_data,
\* import_spectral or import_frame_times runs and a parser raises on the
\* chosen file (invalid timestamp, empty table, missing timestamp column,
\* file not found), frame_times, spectral_df, metadata_df, the five stored
\* paths, current_row, current_frame, total_frames and the video capture
\* keep their values, a warning is shown, and no exception escapes.
C5_Step ==
    ImportFailsParsing(dialog') =>
        /\ UNCHANGED <<frame_times, spectral_df, metadata_df, video_path,
                       frame_times_path, spectral_path, metadata_path,
                       output_path, current_row, current_frame,
                       mw_total_frames, cap, metadataTable, videoLabel>>
        /\ Len(warnings') = 1
        /\ warnings'[1][1] = "Error Loading Data"
        /\ mw_exc' = "none"

C5_FailedImportIsNoOp == [][C5_Step]_vars

\* The directory import has failed, on a spectral file with no timestamp
\* column, in a window that holds data, has its capture open and was stepped
\* away from the first row.
C5_Witness ==
    /\ ImportFailsParsing(dialog)
    /\ warnings # <<>>
    /\ current_row > 0
    /\ Len(frame_times) > 0
    /\ cap.open
    /\ dialog.handler = "import_data"
    /\ dialog.answers[1] = <<"NoColumn">>

\* --------------------------------------------------------------------------
\* _plot_spectra: the channels plotted and the dark reference subtracted
\* --------------------------------------------------------------------------
\* A spectral record is a dict: its (key, value) pairs in insertion order,
\* the order of the columns of the file.  Values are floats.
RecordKeys(spectra) == [i \in 1..Len(spectra) |-> spectra[i][1]]
RecordGet(spectra, k) ==
    spectra[CHOOSE i \in 1..Len(spectra) : spectra[i][1] = k][2]

\* "integration" in k.lower(), for the keys the records hold
ContainsIntegration(k) ==
    k \in {"IntegrationTime", "Integration Time", "integration_ms"}

\* k.lower().replace(" ", "") in {"integrationtime", "integration_time",
\* "integration"}
IsIntegrationAlias(k) == k \in {"IntegrationTime", "Integration Time"}

\* video_spectra_viewer.py line 227: the keys plotted, in record order
viewer_x(spectra) ==
    SelectSeq(RecordKeys(spectra),
              LAMBDA k : k # "timestamp" /\ ~ContainsIntegration(k))

\* line 228
viewer_y(spectra) ==
    [i \in 1..Len(viewer_x(spectra)) |-> RecordGet(spectra, viewer_x(spectra)[i])]

\* lines 230-235: the value under the first key that is an alias of the
\* integration time; None when there is none
NoIntegration == [found |-> FALSE, value |-> 0]

integration_of(spectra) ==
    LET aliases == SelectSeq(RecordKeys(spectra), IsIntegrationAlias)
    IN  IF Len(aliases) = 0
        THEN NoIntegration
        ELSE [found |-> TRUE, value |-> RecordGet(spectra, aliases[1])]

\* lines 237-241: dark_map.get(float(integration)); None when there is no
\* integration time or no entry
NoDark == [found |-> FALSE, intensities |-> <<>>]

dark_of(spectra, dark_map) ==
    LET integration == integration_of(spectra)
    IN  IF ~integration.found
        THEN NoDark
        ELSE IF ~\E entry \in dark_map : entry[1] = integration.value
        THEN NoDark
        ELSE [found |-> TRUE,
              intensities |-> (CHOOSE entry \in dark_map :
                                  entry[1] = integration.value)[2]]

\* The same step subtracting without comparing the lengths: zip stops at the
\* shorter list.
subtract_unchecked(y, dark) ==
    IF dark.found /\ Len(dark.intensities) > 0
    THEN LET n == IF Len(dark.intensities) < Len(y)
                  THEN Len(dark.intensities) ELSE Len(y)
         IN  [i \in 1..n |-> y[i] - dark.intensities[i]]
    ELSE y

\* lines 242-245: an empty dark list is falsy
data_subtracted(y, dark) ==
    IF dark.found /\ Len(dark.intensities) > 0 /\ Len(dark.intensities) = Len(y)
    THEN [i \in 1..Len(y) |-> y[i] - dark.intensities[i]]
    ELSE y

\* VideoSpectraViewer._plot_spectra: the keys on the x axis, the vector handed
\* to the smoothing filter (line 247) and the exception of the filter
viewer_plot_spectra(spectra, dark_map, optimized) ==
    LET handed == data_subtracted(viewer_y(spectra), dark_of(spectra, dark_map))
    IN  [called |-> TRUE, x |-> viewer_x(spectra), handed |-> handed,
         raised |-> apply_fir_filter(<< handed >>, PlotTaps, optimized).raised]

\* sorted(keys, key=float): a stable insertion sort
RECURSIVE InsertByFloat(_, _)
InsertByFloat(sorted, k) ==
    IF Len(sorted) = 0
    THEN << k >>
    ELSE IF FloatOf(k) < FloatOf(Head(sorted))
    THEN << k >> \o sorted
    ELSE << Head(sorted) >> \o InsertByFloat(Tail(sorted), k)

RECURSIVE SortedByFloat(_)
SortedByFloat(keys) ==
    IF Len(keys) = 0
    THEN <<>>
    ELSE InsertByFloat(SortedByFloat(SubSeq(keys, 1, Len(keys) - 1)),
                       keys[Len(keys)])

\* viewer.py lines 291-300: the keys that are not timestamp and parse as
\* float, sorted by their number
main_keys(spectra_row) ==
    SortedByFloat(SelectSeq(RecordKeys(spectra_row),
                            LAMBDA k : k # "timestamp" /\ IsFloatText(k)))

\* MainViewerWindow._plot_spectra, lines 281-303; the values of a row built
\* from floats all convert
main_plot_spectra(spectra_row) ==
    [called |-> TRUE, x |-> main_keys(spectra_row),
     values |-> [i \in 1..Len(main_keys(spectra_row)) |->
                    RecordGet(spectra_row, main_keys(spectra_row)[i])],
     raised |-> "none"]

\* --------------------------------------------------------------------------
\* Specification of _plot_spectra: both viewers on records drawn from
\* PlotRecords and dark tables drawn from DarkTables
\* --------------------------------------------------------------------------
\* Column orders of the spectral file: wavelengths out of numeric order, an
\* integration time under two spellings, a key that only contains the word,
\* an event identifier, and no channel at all
PlotHeaders ==
    { <<"timestamp", "10", "9">>,
      <<"timestamp", "IntegrationTime", "10", "9">>,
      <<"Integration Time", "9", "10", "timestamp">>,
      <<"timestamp", "10", "9", "eventID">>,
      <<"timestamp", "integration_ms", "9">>,
      <<"timestamp", "IntegrationTime">>,
      <<"timestamp">> }

PlotValues == {1, 2}

PlotRecords ==
    UNION { { [i \in 1..Len(h) |-> <<h[i], v[i]>>] :
                v \in [1..Len(h) -> PlotValues] } : h \in PlotHeaders }

\* darkreferencelog.txt as loaded: no entry, entries of the length of the
\* channel vector, shorter, longer and empty entries
DarkTables ==
    { {},
      { <<1, <<1, 1>>>> },
      { <<1, <<1>>>> },
      { <<1, <<1, 1, 1>>>> },
      { <<2, <<>>>> },
      { <<1, <<1, 1>>>>, <<2, <<2, 0>>>> } }

PlotInit ==
    /\ ps_spectra \in PlotRecords
    /\ ps_dark \in DarkTables
    /\ ps_viewer_out = [called |-> FALSE, x |-> <<>>, handed |-> <<>>, raised |-> "none"]
    /\ ps_main_out = [called |-> FALSE, x |-> <<>>, values |-> <<>>, raised |-> "none"]
    /\ fir_optimized \in BOOLEAN
    /\ FirCallIdle
    /\ NearestIdle
    /\ ViewerIdle
    /\ MainIdle
    /\ ParseIdle
    /\ ExportIdle

PlotFixed == <<ps_spectra, ps_dark, nnVars, firVars, viewerVars, mainVars, parseVars,
               exportVars>>

ViewerPlotSpectra ==
    /\ ~ps_viewer_out.called
    /\ ps_viewer_out' = viewer_plot_spectra(ps_spectra, ps_dark, fir_optimized)
    /\ UNCHANGED <<ps_main_out, PlotFixed>>

MainPlotSpectra ==
    /\ ~ps_main_out.called
    /\ ps_main_out' = main_plot_spectra(ps_spectra)
    /\ UNCHANGED <<ps_viewer_out, PlotFixed>>

PlotNext ==
    \/ ViewerPlotSpectra
    \/ MainPlotSpectra

SpecPlot == PlotInit /\ [][PlotNext]_vars

\* --------------------------------------------------------------------------
\* Claims about _plot_spectra
\* --------------------------------------------------------------------------
\* The channel vector of the record: the values under the keys plotted
ps_channels == viewer_y(ps_spectra)

\* The entries of the dark table that apply: the record has a key that is an
\* alias of the integration time, the entry is filed under its value, and the
\* entry is as long as the channel vector
ps_applicable ==
    { entry \in ps_dark :
        /\ \E i \in 1..Len(ps_spectra) :
              /\ IsIntegrationAlias(ps_spectra[i][1])
              /\ ps_spectra[i][2] = entry[1]
        /\ Len(entry[2]) = Len(ps_channels) }

\* C11: the vector handed to the smoothing filter is the channel vector minus
\* the dark reference, element by element, exactly when the record carries an
\* integration time, the dark table has an entry for it and the entry is as
\* long as the channel vector; in every other case it is the channel vector
\* unchanged.
C11_DarkSubtractedOnlyOnMatch ==
    ps_viewer_out.called =>
        /\ Len(ps_viewer_out.handed) = Len(ps_channels)
        /\ \A entry \in ps_applicable :
              \A i \in 1..Len(ps_channels) :
                  ps_viewer_out.handed[i] = ps_channels[i] - entry[2][i]
        /\ ps_applicable = {} => ps_viewer_out.handed = ps_channels

\* The dark reference was subtracted and changed the vector.
C11_Witness ==
    /\ ps_viewer_out.called
    /\ ps_applicable # {}
    /\ ps_viewer_out.handed # ps_channels

\* The keys the claim has plotted: not timestamp, not an alias of the
\* integration time, numeric
ps_expected_keys ==
    { ps_spectra[i][1] : i \in { j \in 1..Len(ps_spectra) :
          /\ ps_spectra[j][1] # "timestamp"
          /\ ~IsIntegrationAlias(ps_spectra[j][1])
          /\ IsFloatText(ps_spectra[j][1]) } }

KeysAsClaimed(x) ==
    /\ { x[i] : i \in 1..Len(x) } = ps_expected_keys
    /\ Len(x) = Cardinality(ps_expected_keys)
    /\ \A i, j \in 1..Len(x) : i < j => FloatOf(x[i]) <= FloatOf(x[j])

\* C12: in both viewers the keys _plot_spectra plots are exactly the keys of
\* the record that are not timestamp, are no alias of the integration time
\* and parse as numbers, in ascending numeric order.
C12_NumericKeysAscending ==
    /\ ps_viewer_out.called => KeysAsClaimed(ps_viewer_out.x)
    /\ ps_main_out.called => KeysAsClaimed(ps_main_out.x)

\* --------------------------------------------------------------------------
\* Specification of the parsers: each on files drawn from its inputs
\* --------------------------------------------------------------------------
\* All sequences of at most n elements of a set
SeqsUpTo(S, n) == UNION { [1..k -> S] : k \in 0..n }

\* Lines of a frame-time file: blank, the sentinel, headers with and without
\* a comma, lines with a frame counter, bare timestamps, and text that is no
\* timestamp
FrameTimeLineSet ==
    { BlankLine, <<"FILE_START">>, <<"timestamp">>, <<"frame", "timestamp">>,
      <<"Timestamp", "frame">>, <<"0", T0>>, <<"1", "note", T1>>,
      <<T0>>, <<T1>>, <<"garbage">> }

FrameTimeInputs == SeqsUpTo(FrameTimeLineSet, MaxLines)

\* A spectral file: any first line, then lines of two fields (headers with
\* and without a timestamp column, rows, the end sentinel) and blank lines
SpectralFirstLines == { <<"FILE_START">>, <<"KecmTimestamp", "1">>, <<T0, "1">> }

SpectralLineSet ==
    { BlankLine, <<"KecmTimestamp", "1">>, <<"timestamp", "1">>, <<"time", "1">>,
      <<T0, "1">>, <<T1, "2">>, <<"FILE_END", "">> }

SpectralInputs ==
    {<<>>} \cup { <<first>> \o rest : first \in SpectralFirstLines,
                                      rest \in SeqsUpTo(SpectralLineSet, MaxTableLines) }

\* A metadata file: a first line of at most two pieces, with or without an
\* "=", and possibly a second line
MetadataPieces == {"x=1", "x=2", "y=foo", "note"}

MetadataInputs ==
    {<<>>} \cup { <<line>> : line \in SeqsUpTo(MetadataPieces, 2) }
           \cup { <<line, <<"x=2">> >> : line \in SeqsUpTo(MetadataPieces, 2) }

ParseInit ==
    /\ pf_kind \in {"frame_times", "spectral", "metadata"}
    /\ pf_lines \in CASE pf_kind = "frame_times" -> FrameTimeInputs
                      [] pf_kind = "spectral" -> SpectralInputs
                      [] pf_kind = "metadata" -> MetadataInputs
    /\ pf_num_rows \in IF pf_kind = "metadata" THEN 0..MaxRowCount ELSE {0}
    /\ pf_out = [fn |-> "none", raised |-> "none", value |-> <<>>]
    /\ NearestIdle
    /\ FirIdle
    /\ ViewerIdle
    /\ MainIdle
    /\ PlotIdle
    /\ ExportIdle

ParseFixed == <<pf_kind, pf_lines, pf_num_rows, nnVars, firVars, viewerVars,
                mainVars, plotVars, exportVars>>

Called(fn, outcome) ==
    [fn |-> fn, raised |-> outcome.raised, value |-> outcome.value]

ParseFrameTimes ==
    /\ pf_kind = "frame_times"
    /\ pf_out.fn = "none"
    /\ pf_out' = Called("parse_frame_times", parse_frame_times(pf_lines))
    /\ UNCHANGED ParseFixed

ParseSpectralData ==
    /\ pf_kind = "spectral"
    /\ pf_out.fn = "none"
    /\ pf_out' = Called("parse_spectral_data", parse_spectral_data(pf_lines))
    /\ UNCHANGED ParseFixed

ParseMetadata ==
    /\ pf_kind = "metadata"
    /\ pf_out.fn = "none"
    /\ pf_out' = Called("parse_metadata", parse_metadata(pf_lines, pf_num_rows))
    /\ UNCHANGED ParseFixed

ParseNext ==
    \/ ParseFrameTimes
    \/ ParseSpectralData
    \/ ParseMetadata

SpecParse == ParseInit /\ [][ParseNext]_vars

\* --------------------------------------------------------------------------
\* Claims about the parsers
\* --------------------------------------------------------------------------
\* A header line as the claim has it: the first token equals timestamp or
\* frame, in any case
C15_IsHeader(line) == line[1] \in {"timestamp", "Timestamp", "frame", "Frame"}

C15_Skipped(line) ==
    line = BlankLine \/ line = <<"FILE_START">> \/ C15_IsHeader(line)

\* The text the claim validates: the last field after a bare integer, else
\* the line
C15_Text(line) == IF IsDigit(line[1]) THEN << line[Len(line)] >> ELSE line

C15_Kept == SelectSeq(pf_lines, LAMBDA line : ~C15_Skipped(line))

\* C15: parse_frame_times skips blank lines, the FILE_START line and every
\* header line whose first token is timestamp or frame in any case; after a
\* bare integer it takes the last field; every other line must be a valid
\* timestamp or the parse fails; it fails when no timestamp results;
\* otherwise it returns the timestamps in file order.
C15_SkipsHeadersAndSentinels ==
    pf_out.fn = "parse_frame_times" =>
        IF \/ Len(C15_Kept) = 0
           \/ \E i \in 1..Len(C15_Kept) : ~ValidTimestamp(C15_Text(C15_Kept[i]))
        THEN pf_out.raised # "none"
        ELSE /\ pf_out.raised = "none"
             /\ pf_out.value = [i \in 1..Len(C15_Kept) |-> C15_Text(C15_Kept[i])[1]]

\* The table of a spectral file: the lines after the first, blank lines left
\* out; its first line is the header
C16_Table == SelectSeq(Tail(pf_lines), LAMBDA l : l # BlankLine)

C16_HasTimestampColumn ==
    \E c \in 1..Len(C16_Table[1]) :
        C16_Table[1][c] \in {"KecmTimestamp", "timestamp"}

\* Positions in the table of the rows with a well-formed timestamp (the
\* timestamp is the first field of every row of SpectralInputs)
C16_WellFormed ==
    { i \in 2..Len(C16_Table) : Strptime(C16_Table[i][1]) # NoTime }

\* C16: parse_spectral_data skips exactly one leading line; it raises exactly
\* when the table is empty (no header or no row) or has no timestamp column
\* after renaming; otherwise it returns, without raising, exactly the rows
\* whose timestamp validates, in their order in the file, and no other row.
C16_DropsInvalidRowsKeepsOrder ==
    pf_out.fn = "parse_spectral_data" =>
        IF Len(pf_lines) = 0 \/ Len(C16_Table) <= 1
        THEN pf_out.raised # "none"
        ELSE IF ~C16_HasTimestampColumn
        THEN pf_out.raised # "none"
        ELSE /\ pf_out.raised = "none"
             /\ Len(pf_out.value.rows) = Cardinality(C16_WellFormed)
             /\ \A i \in C16_WellFormed :
                   pf_out.value.rows[Cardinality({j \in C16_WellFormed : j <= i})]
                       = C16_Table[i]

\* A file with the leading sentinel, two well-formed rows and the trailing
\* FILE_END row was parsed: the two rows came back, in order.
C16_Witness ==
    /\ pf_out.fn = "parse_spectral_data"
    /\ pf_lines = << <<"FILE_START">>, <<"KecmTimestamp", "1">>, <<T0, "1">>,
                     <<T1, "2">>, <<"FILE_END", "">> >>
    /\ pf_out.raised = "none"
    /\ pf_out.value.rows = << <<T0, "1">>, <<T1, "2">> >>

\* The pieces of the first line that hold an "="
C18_Pairs ==
    IF Len(pf_lines) = 0
    THEN <<>>
    ELSE SelectSeq(pf_lines[1], LAMBDA piece : piece # "note")

\* The column and the value the claim has for a piece
C18_Column(piece) == IF piece = "y=foo" THEN "y" ELSE "x"
C18_Value(piece) ==
    CASE piece = "x=1" -> [num |-> TRUE, text |-> "1.0"]
      [] piece = "x=2" -> [num |-> TRUE, text |-> "2.0"]
      [] piece = "y=foo" -> [num |-> FALSE, text |-> "foo"]

\* C18: parse_metadata reads the first line only and returns a table of
\* exactly num_rows rows, one column per key=value piece, every row the same:
\* the number where the value parses as one, the text otherwise.
C18_RowsIdenticalAndCoerced ==
    pf_out.fn = "parse_metadata" =>
        /\ pf_out.raised = "none"
        /\ pf_out.value.columns = [c \in 1..Len(C18_Pairs) |-> C18_Column(C18_Pairs[c])]
        /\ Len(pf_out.value.rows) = pf_num_rows
        /\ \A r \in 1..pf_num_rows :
              pf_out.value.rows[r] = [c \in 1..Len(C18_Pairs) |-> C18_Value(C18_Pairs[c])]

\* x=1,y=foo with three rows was parsed into three rows {x: 1.0, y: "foo"}.
C18_Witness ==
    /\ pf_out.fn = "parse_metadata"
    /\ pf_lines = << <<"x=1", "y=foo">> >>
    /\ pf_num_rows = 3
    /\ pf_out.value.rows =
           [r \in 1..3 |-> << [num |-> TRUE, text |-> "1.0"],
                              [num |-> FALSE, text |-> "foo"] >>]

\* --------------------------------------------------------------------------
\* Specification of the export: write_csv, validate_row_counts and the
\* re-import of an exported file
\* --------------------------------------------------------------------------
ExportFrameTimes == SeqsUpTo({T0, T1}, MaxFrames)

\* Spectral tables with a timestamp column, and one without
ExportSpectralTables ==
    { DataFrame(<<"timestamp", "1">>, rows) :
        rows \in SeqsUpTo({ <<T0, "1">>, <<T1, "2">> }, MaxSpecRows) }
    \cup { DataFrame(<<"time", "1">>, << <<T0, "1">> >>) }

\* Metadata tables as parse_metadata builds them: one row repeated
ExportMetadataTables ==
    { DataFrame(<<"x">>, Repeat(<< Coerce("1") >>, m)) : m \in 0..MaxSpecRows }
    \cup { DataFrame(<<>>, << <<>>, <<>> >>) }

ExportInit ==
    /\ ex_frame_times \in ExportFrameTimes
    /\ ex_spectral_df \in ExportSpectralTables
    /\ ex_metadata_df \in ExportMetadataTables
    /\ ex_writable \in BOOLEAN
    /\ ex_out = [called |-> FALSE, raised |-> "none", lines |-> <<>>]
    /\ ex_validate = [called |-> FALSE, raised |-> "none"]
    /\ ex_reimport = [called |-> FALSE, raised |-> "none", value |-> <<>>]
    /\ NearestIdle
    /\ FirIdle
    /\ ViewerIdle
    /\ MainIdle
    /\ PlotIdle
    /\ ParseIdle

ExportFixed == <<ex_frame_times, ex_spectral_df, ex_metadata_df, ex_writable,
                 nnVars, firVars, viewerVars, mainVars, plotVars, parseVars>>

WriteCsv ==
    /\ ~ex_out.called
    /\ ex_out' = write_csv(ex_writable, ex_frame_times, ex_spectral_df, ex_metadata_df)
    /\ UNCHANGED <<ex_validate, ex_reimport, ExportFixed>>

ValidateRowCounts ==
    /\ ~ex_validate.called
    /\ ex_validate' = [called |-> TRUE,
                       raised |-> validate_row_counts(ex_frame_times, ex_spectral_df)]
    /\ UNCHANGED <<ex_out, ex_reimport, ExportFixed>>

\* parse_frame_times on the frame and frame_timestamp columns of the file
\* write_csv wrote
Reimport ==
    /\ ex_out.called
    /\ ex_out.raised = "none"
    /\ ~ex_reimport.called
    /\ LET parsed == parse_frame_times(FrameColumns(ex_out.lines))
       IN  ex_reimport' = [called |-> TRUE, raised |-> parsed.raised,
                           value |-> parsed.value]
    /\ UNCHANGED <<ex_out, ex_validate, ExportFixed>>

ExportNext ==
    \/ WriteCsv
    \/ ValidateRowCounts
    \/ Reimport

SpecExport == ExportInit /\ [][ExportNext]_vars

\* --------------------------------------------------------------------------
\* Claims about the export
\* --------------------------------------------------------------------------
\* The data lines of the exported file, after its header
ex_data == Tail(ex_out.lines)

\* C13: write_csv produces exactly one row per frame index
\* 0..len(frame_times)-1; row i holds the frame number i, frame_times[i] and
\* the timestamp and values of the spectral row at position i; with at least
\* as many spectral rows as frame times (spare spectral rows are cut off) and
\* a writable path the export succeeds.
C13_OneRowPerFrame ==
    (/\ ex_out.called
     /\ ex_writable
     /\ HasColumn(ex_spectral_df, "timestamp")
     /\ Len(ex_spectral_df.rows) >= Len(ex_frame_times)) =>
        /\ ex_out.raised = "none"
        /\ Len(ex_data) = Len(ex_frame_times)
        /\ \A i \in 1..Len(ex_frame_times) :
              /\ ex_data[i][1] = IntText(i - 1)
              /\ ex_data[i][2] = ex_frame_times[i]
              /\ ex_data[i][3] = ex_spectral_df.rows[i][1]
              /\ ex_data[i][4] = ex_spectral_df.rows[i][2]

\* C14: round trip.  For a valid, non-empty frame-time sequence that was
\* exported, parse_frame_times on the frame and frame_timestamp columns of
\* the exported file returns the same sequence.
C14_RoundTrip ==
    (ex_reimport.called /\ Len(ex_frame_times) > 0) =>
        /\ ex_reimport.raised = "none"
        /\ ex_reimport.value = ex_frame_times

\* C17: validate_row_counts raises ValueError exactly when the number of
\* frame times differs from the number of spectral rows, and returns silently
\* when they are equal.
C17_RaisesExactlyOnMismatch ==
    ex_validate.called =>
        (ex_validate.raised = "ValueError"
            <=> Len(ex_frame_times) # Len(ex_spectral_df.rows))
        /\ ex_validate.raised \in {"ValueError", "none"}

\* The validator raised on more spectral rows than frame times.
C17_Witness ==
    /\ ex_validate.called
    /\ ex_validate.raised = "ValueError"
    /\ Len(ex_frame_times) > 0
    /\ Len(ex_spectral_df.rows) > Len(ex_frame_times)

\* --------------------------------------------------------------------------
\* Claims about the capture and the export of MainViewerWindow
\* --------------------------------------------------------------------------
\* C19: the capture is released when the window closes, and import_data
\* releases the old capture before it opens the new one: in no handler are
\* two captures open at once, the only capture open after a handler is the
\* window's own, and none is open after closeEvent.
C19_OneCaptureAtATime ==
    /\ peak_caps <= 1
    /\ open_caps = (IF cap.open THEN 1 ELSE 0)
    /\ dialog.handler = "closeEvent" => open_caps = 0

\* import_data has replaced the video source: the capture of the new
\* directory is the window's and the only one open.
C19_Witness ==
    /\ dialog.handler = "import_data"
    /\ dialog.answers[1] = <<"Run2">>
    /\ warnings = <<>>
    /\ cap = VideoCapture(<<"Run2", "video.avi">>)
    /\ open_caps = 1

\* C20: a failure inside write_csv never escapes the export handler of
\* MainViewerWindow: after export_csv no exception has left the handler.
C20_ExportNeverCrashes ==
    dialog.handler = "export_csv" => mw_exc = "none"

\* --------------------------------------------------------------------------
\* Claims about the alignment of frames, spectral rows and metadata rows in
\* MainViewerWindow
\* --------------------------------------------------------------------------
\* C23: after any sequence of imports and steps metadata_df has exactly
\* len(frame_times) rows, so the frame index display_row computes is a row of
\* metadata_df: update_metadata_table never indexes past its last row.
C23_MetadataRowPerFrame ==
    /\ Len(metadata_df.rows) = Len(frame_times)
    /\ mw_exc # "IndexError"

\* The frame index of the spectral row at current_row, as display_row finds it
mw_nearest_of_current_row ==
    find_nearest_frame_index(
        frame_times,
        spectral_df.rows[current_row + 1][ColumnIndex(spectral_df, "timestamp")])

\* C24: while the spectral table has rows, current_row is the index of one of
\* them and current_frame is the index of the frame nearest in time to that
\* row.
C24_RowAndFrameAligned ==
    Len(spectral_df.rows) > 0 =>
        /\ 0 <= current_row
        /\ current_row < Len(spectral_df.rows)
        /\ mw_nearest_of_current_row.raised = "none"
        /\ current_frame = mw_nearest_of_current_row.index

\* --------------------------------------------------------------------------
\* Claims about the flush of the metadata table on a frame change
\* --------------------------------------------------------------------------
\* VideoSpectraViewer: the frame index changes in a step; the record of the
\* frame that was shown holds every value of the table that parses as a number
C21_ViewerStep ==
    (exc = "none" /\ current_frame_index' # current_frame_index) =>
        /\ current_frame_index < Len(control_log')
        /\ \A c \in 1..Len(meta_table) :
              (meta_table[c].has_item /\ IsFloatText(meta_table[c].text)) =>
                  <<meta_table[c].header, FloatOf(meta_table[c].text)>>
                      \in control_log'[current_frame_index + 1].controls

\* The handlers of MainViewerWindow that show another frame while they keep
\* metadata_df
C21_FrameChangers ==
    {"next_frame", "prev_frame", "import_frame_times", "import_spectral"}

\* MainViewerWindow: one of those handlers changes current_frame; the row of
\* metadata_df for the frame that was shown holds the text of every cell of
\* the table
C21_MainStep ==
    (/\ Running
     /\ dialog'.handler \in C21_FrameChangers
     /\ current_frame' # current_frame) =>
        /\ current_frame < Len(metadata_df'.rows)
        /\ \A c \in 1..Len(metadataTable) :
              (metadataTable[c].has_item /\ c <= Len(metadata_df'.columns)) =>
                  metadata_df'.rows[current_frame + 1][c].text
                      = metadataTable[c].text

\* C21: on every frame change in either viewer (Next, Previous, and in
\* MainViewerWindow an import that aligns the current row to another frame)
\* the values in the table are written to the metadata store under the frame
\* being left, so what was typed into the table before the change is stored
\* for the frame it was typed on.
C21_EditsFlushedOnFrameChange == [][C21_ViewerStep /\ C21_MainStep]_vars

====
